---- MODULE Spec2Model ----
(***************************************************************************)
(* Model of the receiver core of src/base/phyLayer/BaseDecider.cc: the     *)
(* reception state machine (processSignal ...), the channel sense request  *)
(* handler (handleChannelSenseRequest ...) and the RSSI accumulation       *)
(* (calculateRSSIMapping, calcChannelSenseRSSI), driven by a host layer    *)
(* that delivers each AirFrame at its start time and re-invokes the        *)
(* decider at the wake times it returned; and of the vehicle bookkeeping   *)
(* of src/src/veins/modules/mobility/traci/TraCIScenarioManager.cc         *)
(* (handleSelfMsg, executeOneTimestep, insertVehicles, addModule,          *)
(* deleteManagedModule and the subscription results).                      *)
(*   Spec          the decider under that host                             *)
(*   FairSpec      Spec under a fair scheduler (liveness)                  *)
(*   SpecAnyTime   a host that may re-deliver the outstanding request      *)
(*   SpecRedeliver a host that may re-deliver AirFrames                    *)
(*   MapSpec       the mapping functions applied to bounded inputs         *)
(*   TraCISpec     the scenario manager fed by the TraCI server            *)
(*   InsertSpec    the scenario manager inserting vehicles of its own      *)
(*   CallSpec      direct calls of addModule and deleteManagedModule       *)
(***************************************************************************)
EXTENDS Integers, Sequences, FiniteSets, TLC

(* ------------------------------ bounds --------------------------------- *)
MaxTime == 2
MaxFrames == 2
MaxRequests == 2
MaxLen == 1
MaxTimeout == 1
\* how often one AirFrame may be handed up in a run with re-deliveries
MaxUps == 2
\* node ids the TraCI server reports, steps of the scenario manager,
\* subscription results of one step, vehicles the manager inserts itself
MaxNodes == 2
MaxSteps == 3
MaxResults == 2
MaxVehicles == 2

(* ------------------------- program constants --------------------------- *)
\* "no further events" sentinel returned by the handlers (a negative time)
notAgain == -1
\* the sensitivity threshold the receiving power is compared with
sensitivity == 2
\* what findMax() yields on an empty mapping (-DBL_MAX)
NegDblMax == -1000

\* receiving powers on either side of the one comparison the decider makes
Powers == {sensitivity - 1, sensitivity}
SenseModes == {"UNTIL_IDLE", "UNTIL_BUSY"}
\* time axis of the mappings: every instant a signal of the run can cover
TimeDom == 0..MaxTime
\* an AirFrame that left the channel, a request the MAC has got back
NoSignal == [start |-> -1, length |-> 0, power |-> 0]
NoRequest == [mode |-> "NONE", timeout |-> 0]

VARIABLES
    now,                          \* phy->getSimTime()
    currentSignal,                \* pair <first: AirFrame* (0 = null), second: state>
    isChannelIdle,                \* the channel-occupancy flag
    currentChannelSenseRequest,   \* pair <first: request* (0 = null), second: start time>
    signal,                       \* the AirFrames on the channel: <<[start, length, power]>>
    request,                      \* the ChannelSenseRequests: <<[mode, timeout]>>
    thermalNoise,                 \* phy->getThermalNoise(): [present, val]
    frameTimer,                   \* host: scheduled re-invocation per AirFrame
    csrTimer,                     \* host: scheduled timeout per request
    accepted,                     \* the AirFrames the decider asked to see again
    upCount,                      \* calls of phy->sendUp so far, per AirFrame
    ctrlCount,                    \* calls of phy->sendControlMsg so far, per request
    ev,                           \* the event handled by the last step
    aborted                       \* opp_error was raised: the run has ended

\* the fields of the TraCIScenarioManager of the same simulation
VARIABLES
    par,                          \* the module parameters read by initialize()
    connection,                   \* the TraCI connection (0 = null)
    hostModules,                  \* node id -> managed module
    equippedHostPositions,        \* node id -> position, equipped hosts
    unequippedHostPositions,      \* node id -> position, unequipped hosts
    subscribedVehicles,           \* ids with a vehicle subscription
    queuedVehicles,               \* names inserted but not yet seen as nodes
    vehicleInsertQueue,           \* route index -> queue of vehicle types
    vehicleNameCounter,           \* suffix of the next generated vehicle name
    nextNodeVectorIndex,          \* vector index of the next managed module
    activeVehicleCount,           \* vehicles reported as departed, not yet arrived
    autoShutdownTriggered,        \* the last vehicle has arrived
    executeOneTimestepTrigger,    \* arrival time of the step message, -1 = idle
    pending,                      \* subscription results of the step still unread
    addedVehicles                 \* the names the server accepted, in order

traciVars == <<par, connection, hostModules, equippedHostPositions,
               unequippedHostPositions, subscribedVehicles, queuedVehicles,
               vehicleInsertQueue, vehicleNameCounter, nextNodeVectorIndex,
               activeVehicleCount, autoShutdownTriggered,
               executeOneTimestepTrigger, pending, addedVehicles>>

deciderVars == <<currentSignal, isChannelIdle, currentChannelSenseRequest, signal,
                 request, thermalNoise, frameTimer, csrTimer, accepted, upCount,
                 ctrlCount>>

vars == <<now, currentSignal, isChannelIdle, currentChannelSenseRequest, signal,
          request, thermalNoise, frameTimer, csrTimer, accepted, upCount, ctrlCount,
          ev, aborted, traciVars>>

(* ----------------------- the decider's own state ----------------------- *)
\* What a handler reads and writes, gathered so that a handler is a function
\* from this record to this record: the decider's fields, the host's view of
\* the channel (signal, request), the host's timer for the sense request,
\* the calls made on the two output channels and the handler's return value.
Decider ==
    [currentSignal |-> currentSignal,
     isChannelIdle |-> isChannelIdle,
     csr |-> currentChannelSenseRequest,
     signal |-> signal,
     request |-> request,
     csrTimer |-> csrTimer,
     ups |-> << >>,
     ctrls |-> << >>,
     ret |-> notAgain,
     cs |-> [idle |-> TRUE, rssi |-> 0],
     error |-> FALSE]

(* ------------------------------ mappings -------------------------------- *)
\* A Mapping: its key entries and its value at every instant.
createMapping ==
    [keys |-> {}, val |-> [t \in TimeDom |-> 0]]

MappingAdd(a, b) ==
    [keys |-> a.keys \cup b.keys, val |-> [t \in TimeDom |-> a.val[t] + b.val[t]]]

SetMax(S) == CHOOSE x \in S : \A y \in S : y <= x

\* MappingUtils::findMax over [start, end]: -DBL_MAX on an empty mapping
findMax(m, start, end) ==
    IF m.keys = {} THEN NegDblMax
    ELSE SetMax({m.val[t] : t \in start..end})

\* the receiving power of AirFrame f: constant over [start, start + length]
getReceivingPower(d, f) ==
    LET s == d.signal[f] IN
    [keys |-> {s.start, s.start + s.length},
     val |-> [t \in TimeDom |->
                IF s.start <= t /\ t <= s.start + s.length THEN s.power ELSE 0]]

\* phy->getThermalNoise(start, end): a constant noise floor over the window
getThermalNoise(start, end) ==
    [keys |-> {start, end}, val |-> [t \in TimeDom |-> thermalNoise.val]]

RECURSIVE FramesFrom(_, _, _, _)
FramesFrom(d, f, start, end) ==
    IF f > Len(d.signal) THEN << >>
    ELSE LET s == d.signal[f]
             rest == FramesFrom(d, f + 1, start, end)
         IN IF s.start <= end /\ start <= s.start + s.length
            THEN <<f>> \o rest ELSE rest

\* phy->getChannelInfo(start, end): the AirFrames intersecting [start, end]
getChannelInfo(d, start, end) == FramesFrom(d, 1, start, end)

\* mutant: the excluded AirFrame is summed like every other one
RECURSIVE SumFrames_IgnoresExclude(_, _, _, _)
SumFrames_IgnoresExclude(d, airFrames, exclude, resultMap) ==
    IF airFrames = << >> THEN resultMap
    ELSE SumFrames_IgnoresExclude(d, Tail(airFrames), exclude,
                        MappingAdd(getReceivingPower(d, Head(airFrames)), resultMap))

\* mutant: an AirFrame is left out when it equals the excluded one in content
RECURSIVE SumFrames_ExcludesEqual(_, _, _, _)
SumFrames_ExcludesEqual(d, airFrames, exclude, resultMap) ==
    IF airFrames = << >> THEN resultMap
    ELSE IF exclude # 0 /\ d.signal[Head(airFrames)] = d.signal[exclude]
         THEN SumFrames_ExcludesEqual(d, Tail(airFrames), exclude, resultMap)
         ELSE SumFrames_ExcludesEqual(d, Tail(airFrames), exclude,
                        MappingAdd(getReceivingPower(d, Head(airFrames)), resultMap))

\* mutant: the sum so far is replaced by the AirFrame's power, not added to
RECURSIVE SumFrames_LastWins(_, _, _, _)
SumFrames_LastWins(d, airFrames, exclude, resultMap) ==
    IF airFrames = << >> THEN resultMap
    ELSE IF Head(airFrames) = exclude
         THEN SumFrames_LastWins(d, Tail(airFrames), exclude, resultMap)
         ELSE SumFrames_LastWins(d, Tail(airFrames), exclude,
                                 getReceivingPower(d, Head(airFrames)))

\* the summation loop of calculateRSSIMapping over the AirFrame vector
RECURSIVE SumFrames(_, _, _, _)
SumFrames(d, airFrames, exclude, resultMap) ==
    IF airFrames = << >> THEN resultMap
    ELSE IF Head(airFrames) = exclude
         THEN SumFrames(d, Tail(airFrames), exclude, resultMap)
         ELSE SumFrames(d, Tail(airFrames), exclude,
                        MappingAdd(getReceivingPower(d, Head(airFrames)), resultMap))

calculateRSSIMapping(d, start, end, exclude) ==
    LET airFrames == getChannelInfo(d, start, end)
        resultMap == IF thermalNoise.present
                     THEN MappingAdd(createMapping, getThermalNoise(start, end))
                     ELSE createMapping
    IN SumFrames(d, airFrames, exclude, resultMap)

calcChannelSenseRSSI(d, start, end) ==
    findMax(calculateRSSIMapping(d, start, end, 0), start, end)

\* the orders in which phy->getChannelInfo may fill the AirFrame vector
Orders(airFrames) ==
    LET n == Len(airFrames)
        perms == {q \in [1..n -> 1..n] : \A i, j \in 1..n : q[i] = q[j] => i = j}
    IN {[i \in 1..n |-> airFrames[q[i]]] : q \in perms}

\* calculateRSSIMapping from the creation of the empty mapping on, the
\* AirFrame vector being the one getChannelInfo has filled
calculateRSSIMappingOver(d, airFrames, start, end, exclude) ==
    LET resultMap == IF thermalNoise.present
                     THEN MappingAdd(createMapping, getThermalNoise(start, end))
                     ELSE createMapping
    IN SumFrames(d, airFrames, exclude, resultMap)

\* a quotient of two powers, kept exact as numerator over denominator
Quotient(n, m) == [num |-> n, den |-> m]

\* MappingUtils::divide(a, b, fill): the pointwise quotient, fill wherever
\* the divisor is exactly zero
MappingDivide(a, b, fill) ==
    [keys |-> a.keys \cup b.keys,
     val |-> [t \in TimeDom |->
                IF b.val[t] = 0 THEN Quotient(fill, 1)
                ELSE Quotient(a.val[t], b.val[t])]]

\* mutant: the AirFrame's own power stays in the divisor
calculateSnrMapping_NoExclude(d, frame) ==
    LET start == d.signal[frame].start
        end == start + d.signal[frame].length
        noiseMap == calculateRSSIMapping(d, start, end, 0)
        recvPowerMap == getReceivingPower(d, frame)
    IN MappingDivide(recvPowerMap, noiseMap, 0)

calculateSnrMapping(d, frame) ==
    LET start == d.signal[frame].start
        end == start + d.signal[frame].length
        noiseMap == calculateRSSIMapping(d, start, end, frame)
        recvPowerMap == getReceivingPower(d, frame)
    IN MappingDivide(recvPowerMap, noiseMap, 0)

(* ---------------------- ownership of the mappings ----------------------- *)
\* The Mapping objects on the heap: how many were allocated (a Mapping is
\* named by its allocation number), which are live, how often each was
\* deleted, whether a Mapping was read or deleted while not live, and the
\* pointer returned by the function that ran last (0 = none).
EmptyHeap ==
    [allocated |-> 0, live |-> {}, deleted |-> << >>, fault |-> FALSE, ret |-> 0]

\* a MappingUtils function returning a new Mapping
NewMapping(h) ==
    [h EXCEPT !.allocated = @ + 1,
              !.live = @ \cup {h.allocated + 1},
              !.deleted = Append(@, 0)]

\* delete p
DeleteMapping(h, p) ==
    [h EXCEPT !.live = @ \ {p},
              !.deleted[p] = @ + 1,
              !.fault = @ \/ p \notin h.live]

\* *p handed to a MappingUtils function, p->getValue(...)
ReadMapping(h, p) ==
    [h EXCEPT !.fault = @ \/ p \notin h.live]

\* mutant: the previous sum is not deleted
RECURSIVE SumFramesAlloc_KeepsOld(_, _, _, _)
SumFramesAlloc_KeepsOld(h, airFrames, exclude, resultMap) ==
    IF airFrames = << >> THEN [h EXCEPT !.ret = resultMap]
    ELSE IF Head(airFrames) = exclude
         THEN SumFramesAlloc_KeepsOld(h, Tail(airFrames), exclude, resultMap)
         ELSE LET h1 == NewMapping(ReadMapping(h, resultMap))
                  resultMapNew == h1.allocated
                  h2 == ReadMapping(h1, resultMapNew)
              IN SumFramesAlloc_KeepsOld(h2, Tail(airFrames), exclude, resultMapNew)

\* the summation loop: every pass reads the sum so far, allocates the new
\* sum, reads it, deletes the old one and goes on with the new one
RECURSIVE SumFramesAlloc(_, _, _, _)
SumFramesAlloc(h, airFrames, exclude, resultMap) ==
    IF airFrames = << >> THEN [h EXCEPT !.ret = resultMap]
    ELSE IF Head(airFrames) = exclude
         THEN SumFramesAlloc(h, Tail(airFrames), exclude, resultMap)
         ELSE LET h1 == NewMapping(ReadMapping(h, resultMap))
                  resultMapNew == h1.allocated
                  h2 == ReadMapping(h1, resultMapNew)
                  h3 == DeleteMapping(h2, resultMap)
              IN SumFramesAlloc(h3, Tail(airFrames), exclude, resultMapNew)

\* calculateRSSIMapping as seen on the heap
calculateRSSIMappingAlloc(h, d, start, end, exclude) ==
    LET airFrames == getChannelInfo(d, start, end)
        h1 == NewMapping(h)
        h2 == IF thermalNoise.present
              THEN LET tmp == h1.allocated
                       h11 == NewMapping(ReadMapping(h1, tmp))
                   IN DeleteMapping(h11, tmp)
              ELSE h1
    IN SumFramesAlloc(h2, airFrames, exclude, h2.allocated)

\* calcChannelSenseRSSI as seen on the heap
calcChannelSenseRSSIAlloc(h, d, start, end) ==
    LET h1 == calculateRSSIMappingAlloc(h, d, start, end, 0)
        rssiMap == h1.ret
        h2 == ReadMapping(h1, rssiMap)
        h3 == DeleteMapping(h2, rssiMap)
    IN [h3 EXCEPT !.ret = 0]

\* calculateSnrMapping as seen on the heap
calculateSnrMappingAlloc(h, d, frame) ==
    LET start == d.signal[frame].start
        end == start + d.signal[frame].length
        h1 == calculateRSSIMappingAlloc(h, d, start, end, frame)
        noiseMap == h1.ret
        h2 == NewMapping(ReadMapping(h1, noiseMap))
        snrMap == h2.allocated
        h3 == DeleteMapping(h2, noiseMap)
    IN [h3 EXCEPT !.ret = snrMap]

(* ------------------------ sense request handling ------------------------ *)
\* mutant: the two sense modes are swapped
canAnswerCSR_SwappedModes(d, requestInfo) ==
    IF requestInfo.first = 0 THEN FALSE
    ELSE LET req == d.request[requestInfo.first]
             modeFulfilled == CASE req.mode = "UNTIL_IDLE" -> ~d.isChannelIdle
                                [] req.mode = "UNTIL_BUSY" -> d.isChannelIdle
                                [] OTHER -> FALSE
         IN modeFulfilled \/ now = requestInfo.second + req.timeout

\* mutant: the timeout is not looked at, only the mode
canAnswerCSR_ModeOnly(d, requestInfo) ==
    IF requestInfo.first = 0 THEN FALSE
    ELSE LET req == d.request[requestInfo.first]
         IN CASE req.mode = "UNTIL_IDLE" -> d.isChannelIdle
              [] req.mode = "UNTIL_BUSY" -> ~d.isChannelIdle
              [] OTHER -> FALSE

canAnswerCSR(d, requestInfo) ==
    IF requestInfo.first = 0 THEN FALSE
    ELSE LET req == d.request[requestInfo.first]
             modeFulfilled == CASE req.mode = "UNTIL_IDLE" -> d.isChannelIdle
                                [] req.mode = "UNTIL_BUSY" -> ~d.isChannelIdle
                                [] OTHER -> FALSE
         IN modeFulfilled \/ now = requestInfo.second + req.timeout

\* phy->sendControlMsg(request), the request carrying ChannelState(idle, rssi)
sendControlMsg(d, req, idle, rssi) ==
    [d EXCEPT !.ctrls = Append(@, [req |-> req, since |-> d.csr.second,
                                   mode |-> d.request[req].mode,
                                   timeout |-> d.request[req].timeout,
                                   idle |-> idle, rssi |-> rssi,
                                   cur |-> d.currentSignal.first,
                                   ups |-> Len(d.ups),
                                   timer |-> d.csrTimer[req],
                                   chan |-> d.signal])]

\* mutant: the intensity is sampled at the instant of answering only
answerCSR_WindowNow(d) ==
    LET raw == calcChannelSenseRSSI(d, now, now)
        rssiValue == IF raw < 0 THEN 0 ELSE raw
        d1 == sendControlMsg(d, d.csr.first, d.isChannelIdle, rssiValue)
    IN [d1 EXCEPT !.csr.first = 0]

\* mutant: answering a request also declares the channel idle
answerCSR_MarksIdle(d) ==
    LET raw == calcChannelSenseRSSI(d, d.csr.second, now)
        rssiValue == IF raw < 0 THEN 0 ELSE raw
        d1 == sendControlMsg(d, d.csr.first, d.isChannelIdle, rssiValue)
    IN [d1 EXCEPT !.csr.first = 0, !.isChannelIdle = TRUE]

\* mutant: the answered request stays the outstanding one
answerCSR_KeepsRequest(d) ==
    LET raw == calcChannelSenseRSSI(d, d.csr.second, now)
        rssiValue == IF raw < 0 THEN 0 ELSE raw
    IN sendControlMsg(d, d.csr.first, d.isChannelIdle, rssiValue)

answerCSR(d) ==
    LET raw == calcChannelSenseRSSI(d, d.csr.second, now)
        rssiValue == IF raw < 0 THEN 0 ELSE raw
        d1 == sendControlMsg(d, d.csr.first, d.isChannelIdle, rssiValue)
    IN [d1 EXCEPT !.csr.first = 0]

\* phy->cancelScheduledMessage(request)
cancelScheduledMessage(d, req) ==
    [d EXCEPT !.csrTimer[req] = notAgain]

\* mutant: the flag is written without looking at the outstanding request
setChannelIdleStatus_NoRecheck(d, isIdle) ==
    [d EXCEPT !.isChannelIdle = isIdle]

\* mutant: the early answer forgets to cancel the scheduled timeout
setChannelIdleStatus_NoCancel(d, isIdle) ==
    LET d1 == [d EXCEPT !.isChannelIdle = isIdle]
    IN IF canAnswerCSR(d1, d1.csr) THEN answerCSR(d1) ELSE d1

\* mutant: the timeout is cancelled but the request is not answered
setChannelIdleStatus_CancelOnly(d, isIdle) ==
    LET d1 == [d EXCEPT !.isChannelIdle = isIdle]
    IN IF canAnswerCSR(d1, d1.csr)
       THEN cancelScheduledMessage(d1, d1.csr.first)
       ELSE d1

\* mutant: the request is answered before the new flag is written
setChannelIdleStatus_AnswerThenWrite(d, isIdle) ==
    LET d1 == IF canAnswerCSR([d EXCEPT !.isChannelIdle = isIdle], d.csr)
              THEN answerCSR(cancelScheduledMessage(d, d.csr.first))
              ELSE d
    IN [d1 EXCEPT !.isChannelIdle = isIdle]

setChannelIdleStatus(d, isIdle) ==
    LET d1 == [d EXCEPT !.isChannelIdle = isIdle]
    IN IF canAnswerCSR(d1, d1.csr)
       THEN answerCSR(cancelScheduledMessage(d1, d1.csr.first))
       ELSE d1

\* mutant: the re-delivered request is answered only if canAnswerCSR holds
handleSenseRequestTimeout_IfAnswerable(d) ==
    IF canAnswerCSR(d, d.csr) THEN answerCSR(d) ELSE d

handleSenseRequestTimeout(d) == answerCSR(d)

\* mutant: a new request is never answered at once, always scheduled
handleNewSenseRequest_NeverAtOnce(d, req) ==
    LET d1 == [d EXCEPT !.csr = [first |-> req, second |-> now]]
    IN [d1 EXCEPT !.ret = now + d.request[req].timeout]

\* mutant: a new request is answered at once whether answerable or not
handleNewSenseRequest_AlwaysAtOnce(d, req) ==
    LET d1 == [d EXCEPT !.csr = [first |-> req, second |-> now]]
    IN [answerCSR(d1) EXCEPT !.ret = notAgain]

\* mutant: the timeout is scheduled one instant late
handleNewSenseRequest_LateWake(d, req) ==
    LET d1 == [d EXCEPT !.csr = [first |-> req, second |-> now]]
    IN IF canAnswerCSR(d1, d1.csr)
       THEN [answerCSR(d1) EXCEPT !.ret = notAgain]
       ELSE [d1 EXCEPT !.ret = now + d.request[req].timeout + 1]

handleNewSenseRequest(d, req) ==
    LET d1 == [d EXCEPT !.csr = [first |-> req, second |-> now]]
    IN IF canAnswerCSR(d1, d1.csr)
       THEN [answerCSR(d1) EXCEPT !.ret = notAgain]
       ELSE [d1 EXCEPT !.ret = now + d.request[req].timeout]

\* opp_error(...) ends the run; nothing of the decider is touched
opp_error(d) == [d EXCEPT !.error = TRUE]

\* mutant: the assertion is compiled to nothing
abort_Continues(d) == d

\* a failed assert(...) ends the run on the spot
abort(d) == [d EXCEPT !.error = TRUE]

\* mutant: a second request silently replaces the outstanding one
handleChannelSenseRequest_Replaces(d, req) ==
    IF req = 0 THEN abort(d)
    ELSE IF d.csr.first = 0 \/ d.csr.first # req THEN handleNewSenseRequest(d, req)
    ELSE [handleSenseRequestTimeout(d) EXCEPT !.ret = notAgain]

handleChannelSenseRequest(d, req) ==
    IF req = 0 THEN abort(d)
    ELSE IF d.csr.first = 0 THEN handleNewSenseRequest(d, req)
    ELSE IF d.csr.first # req THEN [opp_error(d) EXCEPT !.ret = notAgain]
    ELSE [handleSenseRequestTimeout(d) EXCEPT !.ret = notAgain]

(* ----------------------- reception state machine ------------------------ *)
\* mutant: every AirFrame is taken for the current signal
getSignalState_AlwaysCurrent(d, frame) == d.currentSignal.second

getSignalState(d, frame) ==
    IF frame = d.currentSignal.first THEN d.currentSignal.second ELSE "NEW"

\* phy->sendUp(frame, new DeciderResult(true))
sendUp(d, frame, result) ==
    [d EXCEPT !.ups = Append(@, [frame |-> frame, result |-> result,
                                 ends |-> d.signal[frame].start + d.signal[frame].length,
                                 cur |-> d.currentSignal.first,
                                 ctrls |-> Len(d.ctrls)])]

\* mutant: a signal exactly at the sensitivity is refused
processNewSignal_StrictThreshold(d, frame) ==
    IF d.currentSignal.first # 0 THEN [d EXCEPT !.ret = notAgain]
    ELSE LET s == d.signal[frame]
             recvPower == getReceivingPower(d, frame).val[s.start]
         IN IF recvPower <= sensitivity THEN [d EXCEPT !.ret = notAgain]
            ELSE LET d1 == [d EXCEPT !.currentSignal =
                                        [first |-> frame, second |-> "EXPECT_END"]]
                     d2 == setChannelIdleStatus(d1, FALSE)
                 IN [d2 EXCEPT !.ret = s.start + s.length]

\* mutant: the sensitivity is not checked at all
processNewSignal_NoThreshold(d, frame) ==
    IF d.currentSignal.first # 0 THEN [d EXCEPT !.ret = notAgain]
    ELSE LET s == d.signal[frame]
             d1 == [d EXCEPT !.currentSignal =
                                [first |-> frame, second |-> "EXPECT_END"]]
             d2 == setChannelIdleStatus(d1, FALSE)
         IN [d2 EXCEPT !.ret = s.start + s.length]

\* mutant: a new signal is taken although another one is being received
processNewSignal_NoBusyCheck(d, frame) ==
    LET s == d.signal[frame]
        recvPower == getReceivingPower(d, frame).val[s.start]
    IN IF recvPower < sensitivity THEN [d EXCEPT !.ret = notAgain]
       ELSE LET d1 == [d EXCEPT !.currentSignal =
                                   [first |-> frame, second |-> "EXPECT_END"]]
                d2 == setChannelIdleStatus(d1, FALSE)
            IN [d2 EXCEPT !.ret = s.start + s.length]

\* mutant: the wake time is the signal start instead of the signal end
processNewSignal_WakeAtStart(d, frame) ==
    IF d.currentSignal.first # 0 THEN [d EXCEPT !.ret = notAgain]
    ELSE LET s == d.signal[frame]
             recvPower == getReceivingPower(d, frame).val[s.start]
         IN IF recvPower < sensitivity THEN [d EXCEPT !.ret = notAgain]
            ELSE LET d1 == [d EXCEPT !.currentSignal =
                                        [first |-> frame, second |-> "EXPECT_END"]]
                     d2 == setChannelIdleStatus(d1, FALSE)
                 IN [d2 EXCEPT !.ret = s.start]

\* mutant: the accepted signal is never asked for again
processNewSignal_NoWake(d, frame) ==
    IF d.currentSignal.first # 0 THEN [d EXCEPT !.ret = notAgain]
    ELSE LET s == d.signal[frame]
             recvPower == getReceivingPower(d, frame).val[s.start]
         IN IF recvPower < sensitivity THEN [d EXCEPT !.ret = notAgain]
            ELSE LET d1 == [d EXCEPT !.currentSignal =
                                        [first |-> frame, second |-> "EXPECT_END"]]
                     d2 == setChannelIdleStatus(d1, FALSE)
                 IN [d2 EXCEPT !.ret = notAgain]

\* mutant: a signal is taken at its own signal start only
processNewSignal_OnlyAtStart(d, frame) ==
    IF d.currentSignal.first # 0 THEN [d EXCEPT !.ret = notAgain]
    ELSE LET s == d.signal[frame]
             recvPower == getReceivingPower(d, frame).val[s.start]
         IN IF recvPower < sensitivity \/ now # s.start
            THEN [d EXCEPT !.ret = notAgain]
            ELSE LET d1 == [d EXCEPT !.currentSignal =
                                        [first |-> frame, second |-> "EXPECT_END"]]
                     d2 == setChannelIdleStatus(d1, FALSE)
                 IN [d2 EXCEPT !.ret = s.start + s.length]

processNewSignal(d, frame) ==
    IF d.currentSignal.first # 0 THEN [d EXCEPT !.ret = notAgain]
    ELSE LET s == d.signal[frame]
             recvPower == getReceivingPower(d, frame).val[s.start]
         IN IF recvPower < sensitivity THEN [d EXCEPT !.ret = notAgain]
            ELSE LET d1 == [d EXCEPT !.currentSignal =
                                        [first |-> frame, second |-> "EXPECT_END"]]
                     d2 == setChannelIdleStatus(d1, FALSE)
                 IN [d2 EXCEPT !.ret = s.start + s.length]

\* mutant: the channel is not declared idle at the end of the reception
processSignalEnd_StaysBusy(d, frame) ==
    LET d1 == sendUp(d, frame, TRUE)
        d2 == [d1 EXCEPT !.currentSignal.first = 0]
    IN [d2 EXCEPT !.ret = notAgain]

\* mutant: the current signal is not cleared at the end of the reception
processSignalEnd_KeepsSignal(d, frame) ==
    LET d1 == sendUp(d, frame, TRUE)
        d3 == setChannelIdleStatus(d1, TRUE)
    IN [d3 EXCEPT !.ret = notAgain]

\* mutant: the channel is declared idle before the AirFrame is handed up
processSignalEnd_IdleFirst(d, frame) ==
    LET d1 == [d EXCEPT !.currentSignal.first = 0]
        d2 == setChannelIdleStatus(d1, TRUE)
        d3 == sendUp(d2, frame, TRUE)
    IN [d3 EXCEPT !.ret = notAgain]

\* mutant: the stored state is reset together with the reference
processSignalEnd_ResetsState(d, frame) ==
    LET d1 == sendUp(d, frame, TRUE)
        d2 == [d1 EXCEPT !.currentSignal = [first |-> 0, second |-> "NEW"]]
        d3 == setChannelIdleStatus(d2, TRUE)
    IN [d3 EXCEPT !.ret = notAgain]

processSignalEnd(d, frame) ==
    LET d1 == sendUp(d, frame, TRUE)
        d2 == [d1 EXCEPT !.currentSignal.first = 0]
        d3 == setChannelIdleStatus(d2, TRUE)
    IN [d3 EXCEPT !.ret = notAgain]

\* the base class refuses header and unknown states without touching its state
processSignalHeader(d, frame) == [d EXCEPT !.ret = notAgain]

processUnknownSignal(d, frame) == [d EXCEPT !.ret = notAgain]

processSignal(d, frame) ==
    IF frame = 0 THEN abort(d)
    ELSE LET st == getSignalState(d, frame)
         IN CASE st = "NEW" -> processNewSignal(d, frame)
              [] st = "EXPECT_HEADER" -> processSignalHeader(d, frame)
              [] st = "EXPECT_END" -> processSignalEnd(d, frame)
              [] OTHER -> processUnknownSignal(d, frame)

\* mutant: the query also answers the outstanding request
getChannelState_AnswersRequest(d) ==
    LET d1 == [d EXCEPT !.cs = [idle |-> d.isChannelIdle,
                               rssi |-> calcChannelSenseRSSI(d, now, now)]]
    IN IF d1.csr.first # 0 THEN answerCSR(d1) ELSE d1

\* return ChannelState(isChannelIdle, rssiValue)
getChannelState(d) ==
    [d EXCEPT !.cs = [idle |-> d.isChannelIdle,
                      rssi |-> calcChannelSenseRSSI(d, now, now)]]

(* ----------------------- the TraCI scenario manager --------------------- *)
\* the vehicle types and routes the server offers: vehicleTypeIds and
\* routeIds as the first step after t = 1 fetches them
vehicleTypeIds == <<"car", "bus">>
routeIds == <<"r0", "r1">>

\* the name insertVehicles gives a vehicle: its type, "_", the counter
VehicleName(type, n) == type \o "_" \o ToString(n)

\* the node ids the server reports: they can meet generated names
NodeIds == {VehicleName(vehicleTypeIds[1], n) : n \in 0..(MaxNodes - 1)}

\* positions after traci2omnet: -1 lies off the playground, 0 outside the
\* region of interest, 1 inside it
Positions == -1..1

NoError == ""

\* the manager as the handlers see it; deleted, scheduled and attempts log
\* the calls of deleteManagedModule, scheduleAt and addVehicle of one handler
Manager ==
    [par |-> par, simTime |-> now, connection |-> connection,
     hostModules |-> hostModules,
     equippedHostPositions |-> equippedHostPositions,
     unequippedHostPositions |-> unequippedHostPositions,
     subscribedVehicles |-> subscribedVehicles, queuedVehicles |-> queuedVehicles,
     vehicleInsertQueue |-> vehicleInsertQueue,
     vehicleNameCounter |-> vehicleNameCounter,
     nextNodeVectorIndex |-> nextNodeVectorIndex,
     activeVehicleCount |-> activeVehicleCount,
     autoShutdownTriggered |-> autoShutdownTriggered,
     executeOneTimestepTrigger |-> executeOneTimestepTrigger,
     pending |-> pending, addedVehicles |-> addedVehicles,
     error |-> NoError, deleted |-> << >>, scheduled |-> << >>,
     attempts |-> << >>]

\* throw cRuntimeError(msg): the handler ends here, the simulation with it
cRuntimeError(m, msg) == [m EXCEPT !.error = msg]

\* cComponent::error(msg) throws a cRuntimeError
error(m, msg) == cRuntimeError(m, msg)

fabs(x) == IF x < 0 THEN -x ELSE x

\* |a - b| of two quotients, and a < b, denominators positive
QuotientDistance(a, b) ==
    Quotient(fabs(a.num * b.den - b.num * a.den), a.den * b.den)

QuotientLess(a, b) == a.num * b.den < b.num * a.den

getManagedModule(m, nodeId) ==
    IF nodeId \notin DOMAIN m.hostModules THEN 0 ELSE m.hostModules[nodeId]

isModuleUnequipped(m, nodeId) ==
    IF nodeId \notin DOMAIN m.unequippedHostPositions THEN FALSE ELSE TRUE

\* hostPosMap[nodeId] = position (the grid cells are left out)
addToHostPosMap(hostPosMap, nodeId, position) ==
    [k \in DOMAIN hostPosMap \cup {nodeId} |->
        IF k = nodeId THEN position ELSE hostPosMap[k]]

\* hostPosMap[nodeId] creates the entry when there is none
updateHostPosMap(hostPosMap, nodeId, position) ==
    [k \in DOMAIN hostPosMap \cup {nodeId} |->
        IF k = nodeId THEN position ELSE hostPosMap[k]]

eraseFromHostPosMap(hostPosMap, nodeId) ==
    [k \in DOMAIN hostPosMap \ {nodeId} |-> hostPosMap[k]]

\* addModule taking the id off queuedVehicles before it looks for a duplicate
addModule_EraseFirst(m, nodeId, position) ==
    LET q == IF nodeId \in m.queuedVehicles
             THEN [m EXCEPT !.queuedVehicles = @ \ {nodeId}] ELSE m
    IN IF nodeId \in DOMAIN q.hostModules
       THEN cRuntimeError(q, "tried adding duplicate module")
       ELSE LET hosts == Cardinality(DOMAIN q.hostModules)
                all == hosts + Cardinality(DOMAIN q.unequippedHostPositions) + 1
                option1 == Quotient(hosts, all)
                option2 == Quotient(hosts + 1, all)
            IN IF QuotientLess(QuotientDistance(option1, q.par.penetrationRate),
                               QuotientDistance(option2, q.par.penetrationRate))
               THEN [q EXCEPT !.unequippedHostPositions =
                                  addToHostPosMap(@, nodeId, position)]
               ELSE LET nodeVectorIndex == q.nextNodeVectorIndex
                    IN [q EXCEPT
                           !.nextNodeVectorIndex = @ + 1,
                           !.equippedHostPositions =
                               addToHostPosMap(@, nodeId, position),
                           !.hostModules =
                               [k \in DOMAIN @ \cup {nodeId} |->
                                   IF k = nodeId THEN nodeVectorIndex + 1 ELSE @[k]]]

\* a module is the pointer nodeVectorIndex + 1, never null
addModule(m, nodeId, position) ==
    IF nodeId \in DOMAIN m.hostModules
    THEN cRuntimeError(m, "tried adding duplicate module")
    ELSE LET q == IF nodeId \in m.queuedVehicles
                  THEN [m EXCEPT !.queuedVehicles = @ \ {nodeId}] ELSE m
             hosts == Cardinality(DOMAIN q.hostModules)
             all == hosts + Cardinality(DOMAIN q.unequippedHostPositions) + 1
             option1 == Quotient(hosts, all)
             option2 == Quotient(hosts + 1, all)
         IN IF QuotientLess(QuotientDistance(option1, q.par.penetrationRate),
                            QuotientDistance(option2, q.par.penetrationRate))
            THEN [q EXCEPT !.unequippedHostPositions =
                               addToHostPosMap(@, nodeId, position)]
            ELSE LET nodeVectorIndex == q.nextNodeVectorIndex
                 IN [q EXCEPT
                        !.nextNodeVectorIndex = @ + 1,
                        !.equippedHostPositions =
                            addToHostPosMap(@, nodeId, position),
                        !.hostModules =
                            [k \in DOMAIN @ \cup {nodeId} |->
                                IF k = nodeId THEN nodeVectorIndex + 1 ELSE @[k]]]

\* deleteManagedModule leaving the host's position entry behind
deleteManagedModule_KeepsPosition(m, nodeId) ==
    LET mod == getManagedModule(m, nodeId)
    IN IF mod = 0
       THEN error(m, "no vehicle with Id found")
       ELSE [m EXCEPT
               !.hostModules = [k \in DOMAIN @ \ {nodeId} |-> @[k]],
               !.deleted = Append(@, nodeId)]

deleteManagedModule(m, nodeId) ==
    LET mod == getManagedModule(m, nodeId)
    IN IF mod = 0
       THEN error(m, "no vehicle with Id found")
       ELSE [m EXCEPT
               !.hostModules = [k \in DOMAIN @ \ {nodeId} |-> @[k]],
               !.equippedHostPositions = eraseFromHostPosMap(@, nodeId),
               !.deleted = Append(@, nodeId)]

\* no region configured: everything is inside
isInRegionOfInterest(m, position) ==
    IF m.par.roi = {} THEN TRUE ELSE position \in m.par.roi

scheduleAt(m, t) ==
    [m EXCEPT !.executeOneTimestepTrigger = t, !.scheduled = Append(@, t)]

insertNewVehicle(m, rng) ==
    LET type == IF Len(vehicleTypeIds) > 0
                THEN vehicleTypeIds[rng.vehTypeId + 1] ELSE "DEFAULT_VEHTYPE"
        routeId == rng.routeId
        q == m.vehicleInsertQueue
    IN [m EXCEPT !.vehicleInsertQueue =
            [r \in DOMAIN q \cup {routeId} |->
                IF r \notin DOMAIN q THEN <<type>>
                ELSE IF r = routeId THEN Append(q[r], type) ELSE q[r]]]

\* insertVehicles leaving the name counter where it is after a success
RECURSIVE insertVehicles_NoIncrement(_, _)
insertVehicles_NoIncrement(m, suc) ==
    LET q == m.vehicleInsertQueue
    IN IF DOMAIN q = {} THEN m
       ELSE LET i == CHOOSE r \in DOMAIN q : \A r2 \in DOMAIN q : r <= r2
            IN IF q[i] = << >>
               THEN insertVehicles_NoIncrement(
                        [m EXCEPT !.vehicleInsertQueue =
                            [r \in DOMAIN q \ {i} |-> q[r]]], suc)
               ELSE LET type == Head(q[i])
                        veh == VehicleName(type, m.vehicleNameCounter)
                        ok == suc[Len(m.attempts) + 1]
                        tried == [m EXCEPT
                                    !.attempts = Append(@, [veh |-> veh,
                                        type |-> type, route |-> routeIds[i + 1],
                                        suc |-> ok]),
                                    !.vehicleInsertQueue = [q EXCEPT ![i] = Tail(@)]]
                    IN IF ~ok THEN insertVehicles_NoIncrement(tried, suc)
                       ELSE insertVehicles_NoIncrement(
                                [tried EXCEPT
                                    !.queuedVehicles = @ \cup {veh},
                                    !.addedVehicles = Append(@, veh)], suc)

\* suc[k] is the server's answer to the k-th addVehicle of the call
RECURSIVE insertVehicles(_, _)
insertVehicles(m, suc) ==
    LET q == m.vehicleInsertQueue
    IN IF DOMAIN q = {} THEN m
       ELSE LET i == CHOOSE r \in DOMAIN q : \A r2 \in DOMAIN q : r <= r2
            IN IF q[i] = << >>
               THEN insertVehicles(
                        [m EXCEPT !.vehicleInsertQueue =
                            [r \in DOMAIN q \ {i} |-> q[r]]], suc)
               ELSE LET type == Head(q[i])
                        veh == VehicleName(type, m.vehicleNameCounter)
                        ok == suc[Len(m.attempts) + 1]
                        tried == [m EXCEPT
                                    !.attempts = Append(@, [veh |-> veh,
                                        type |-> type, route |-> routeIds[i + 1],
                                        suc |-> ok]),
                                    !.vehicleInsertQueue = [q EXCEPT ![i] = Tail(@)]]
                    IN IF ~ok THEN insertVehicles(tried, suc)
                       ELSE insertVehicles(
                                [tried EXCEPT
                                    !.queuedVehicles = @ \cup {veh},
                                    !.addedVehicles = Append(@, veh),
                                    !.vehicleNameCounter = @ + 1], suc)

\* the driving vehicles become the subscribed ones; data of a subscribed
\* vehicle with all nine attributes moves, adds or removes its host
processVehicleSubscription(m, objectId, r) ==
    LET isSubscribed == objectId \in m.subscribedVehicles
        m1 == IF r.var # "ID_LIST" THEN m
              ELSE IF Cardinality(r.ids) # m.activeVehicleCount
              THEN cRuntimeError(m, "ASSERT: count == activeVehicleCount")
              ELSE LET needSubscribe == r.ids \ m.subscribedVehicles
                       subscribed == m.subscribedVehicles \cup needSubscribe
                       needUnsubscribe == subscribed \ r.ids
                   IN [m EXCEPT !.subscribedVehicles = subscribed \ needUnsubscribe]
    IN IF m1.error # NoError THEN m1
       ELSE IF ~isSubscribed THEN m1
       ELSE IF r.numRead # 9 THEN m1
       ELSE IF r.p < 0 THEN cRuntimeError(m1, "received bad node position")
       ELSE LET mod == getManagedModule(m1, objectId)
                inRoi == isInRegionOfInterest(m1, r.p)
            IN IF ~inRoi
               THEN IF mod # 0 THEN deleteManagedModule(m1, objectId)
                    ELSE IF objectId \in DOMAIN m1.unequippedHostPositions
                    THEN [m1 EXCEPT !.unequippedHostPositions =
                                        eraseFromHostPosMap(@, objectId)]
                    ELSE m1
               ELSE IF isModuleUnequipped(m1, objectId)
               THEN [m1 EXCEPT !.unequippedHostPositions =
                                   updateHostPosMap(@, objectId, r.p)]
               ELSE IF mod = 0
               THEN IF m1.par.moduleType # "0"
                    THEN addModule(m1, objectId, r.p) ELSE m1
               ELSE [m1 EXCEPT !.equippedHostPositions =
                                   updateHostPosMap(@, objectId, r.p)]

\* the loop over the ids of an arrival (unsubscribe) or teleport report
RECURSIVE RemoveVehicles(_, _, _)
RemoveVehicles(m, ids, unsubscribe) ==
    IF ids = {} THEN m
    ELSE LET idstring == CHOOSE i \in ids : TRUE
             m1 == IF unsubscribe /\ idstring \in m.subscribedVehicles
                   THEN [m EXCEPT !.subscribedVehicles = @ \ {idstring}] ELSE m
             m2 == IF getManagedModule(m1, idstring) # 0
                   THEN deleteManagedModule(m1, idstring) ELSE m1
             m3 == IF idstring \in DOMAIN m2.unequippedHostPositions
                   THEN [m2 EXCEPT !.unequippedHostPositions =
                                       eraseFromHostPosMap(@, idstring)]
                   ELSE m2
         IN RemoveVehicles(m3, ids \ {idstring}, unsubscribe)

processSimSubscription(m, objectId, r) ==
    LET count == Cardinality(r.ids)
    IN IF r.var = "VAR_DEPARTED_VEHICLES_IDS"
       THEN [m EXCEPT !.activeVehicleCount = @ + count]
       ELSE IF r.var = "VAR_ARRIVED_VEHICLES_IDS"
       THEN LET m1 == RemoveVehicles(m, r.ids, TRUE)
                m2 == IF (count > 0) /\ (count >= m1.activeVehicleCount)
                         /\ m1.par.autoShutdown
                      THEN [m1 EXCEPT !.autoShutdownTriggered = TRUE] ELSE m1
            IN [m2 EXCEPT !.activeVehicleCount = @ - count]
       ELSE IF r.var = "VAR_TELEPORT_STARTING_VEHICLES_IDS"
       THEN [RemoveVehicles(m, r.ids, FALSE) EXCEPT !.activeVehicleCount = @ - count]
       ELSE IF r.var = "VAR_TELEPORT_ENDING_VEHICLES_IDS"
       THEN [m EXCEPT !.activeVehicleCount = @ + count]
       ELSE cRuntimeError(m, "Received unhandled sim subscription result")

processSubcriptionResult(m, r) ==
    IF r.cmd = "RESPONSE_SUBSCRIBE_VEHICLE_VARIABLE"
    THEN processVehicleSubscription(m, r.objectId, r)
    ELSE IF r.cmd = "RESPONSE_SUBSCRIBE_SIM_VARIABLE"
    THEN processSimSubscription(m, r.objectId, r)
    ELSE cRuntimeError(m, "Received unhandled subscription result")

\* an executeOneTimestep that schedules the next step whatever the flag says
scheduleNextTimestep_Always(m) ==
    scheduleAt(m, m.simTime + m.par.updateInterval)

\* the end of executeOneTimestep: the next step unless shut down
scheduleNextTimestep(m) ==
    IF ~m.autoShutdownTriggered
    THEN scheduleAt(m, m.simTime + m.par.updateInterval) ELSE m

\* executeOneTimestep up to the first subscription result: count results
\* are announced; with none the call ends here
executeOneTimestep(m, suc, count) ==
    LET m1 == IF m.connection # 0
              THEN [insertVehicles(m, suc) EXCEPT !.pending = count] ELSE m
    IN IF m1.pending = 0 THEN scheduleNextTimestep(m1) ELSE m1

\* one pass of the loop over the subscription results; the last pass ends
\* the call
executeOneTimestepResult(m, r) ==
    LET m1 == processSubcriptionResult(m, r)
        m2 == [m1 EXCEPT !.pending = @ - 1]
    IN IF m1.error # NoError THEN m1
       ELSE IF m2.pending = 0 THEN scheduleNextTimestep(m2) ELSE m2

\* rng[k] is the k-th pair of draws of mobRng in insertNewVehicle
RECURSIVE insertNewVehicles(_, _, _)
insertNewVehicles(m, i, rng) ==
    IF i < m.par.numVehicles
    THEN insertNewVehicles(insertNewVehicle(m, Head(rng)), i + 1, Tail(rng))
    ELSE m

handleSelfMsg(m, msg, rng, suc, count) ==
    IF msg = "connectAndStartTrigger"
    THEN [m EXCEPT !.connection = 1]
    ELSE IF msg = "executeOneTimestepTrigger"
    THEN LET m1 == IF m.simTime > 1
                   THEN insertNewVehicles(m,
                            m.activeVehicleCount + Cardinality(m.queuedVehicles),
                            rng)
                   ELSE m
         IN executeOneTimestep(m1, suc, count)
    ELSE cRuntimeError(m, "TraCIScenarioManager received unknown self-message")

\* initialize(): nothing managed, the first step one interval after connecting
initialize(p) ==
    /\ par = p
    /\ connection = 0
    /\ hostModules = << >>
    /\ equippedHostPositions = << >>
    /\ unequippedHostPositions = << >>
    /\ subscribedVehicles = {}
    /\ queuedVehicles = {}
    /\ vehicleInsertQueue = << >>
    /\ vehicleNameCounter = 0
    /\ nextNodeVectorIndex = 0
    /\ activeVehicleCount = 0
    /\ autoShutdownTriggered = FALSE
    /\ executeOneTimestepTrigger = p.connectAt + p.updateInterval
    /\ pending = 0
    /\ addedVehicles = << >>

\* the parameters of a run: a penetration rate that makes addModule take
\* either branch, the region of interest around position 1
Parameters(numVehicles) ==
    [autoShutdown : BOOLEAN,
     penetrationRate : {Quotient(1, 2)},
     numVehicles : numVehicles,
     roi : {{1}}, moduleType : {"car"},
     connectAt : {0}, updateInterval : {1}]

NoManager ==
    [autoShutdown |-> FALSE, penetrationRate |-> Quotient(1, 1), numVehicles |-> 0,
     roi |-> {}, moduleType |-> "car", connectAt |-> 0, updateInterval |-> 1]

(* --------------------------- the host layer ----------------------------- *)
\* what the last step was: the call, the decider's fields before it, what it
\* returned and the calls it made on sendUp and sendControlMsg
Event(kind, sub, id, d2, idle, rssi) ==
    [kind |-> kind, sub |-> sub, id |-> id,
     preFirst |-> currentSignal.first, preIdle |-> isChannelIdle,
     preCsr |-> currentChannelSenseRequest.first,
     ret |-> d2.ret, idle |-> idle, rssi |-> rssi,
     ups |-> d2.ups, ctrls |-> d2.ctrls]

RECURSIVE CountCalls(_, _, _)
CountCalls(calls, key, id) ==
    IF calls = << >> THEN 0
    ELSE (IF Head(calls)[key] = id THEN 1 ELSE 0) + CountCalls(Tail(calls), key, id)

\* an AirFrame leaves the channel once no window asked for later can touch it
Sweep(sig, t, csr) ==
    [f \in 1..Len(sig) |->
        LET ends == sig[f].start + sig[f].length
        IN IF ends < t /\ (csr.first = 0 \/ ends < csr.second)
           THEN NoSignal ELSE sig[f]]

\* write a handler's result back to the decider's fields and output channels
Commit(d) ==
    /\ currentSignal' = d.currentSignal
    /\ isChannelIdle' = d.isChannelIdle
    /\ currentChannelSenseRequest' = d.csr
    /\ signal' = Sweep(d.signal, now, d.csr)
    /\ request' = [r \in 1..Len(d.request) |->
                      IF r = d.csr.first THEN d.request[r] ELSE NoRequest]
    /\ upCount' = [f \in 1..Len(d.signal) |->
                      (IF f <= Len(upCount) THEN upCount[f] ELSE 0)
                      + CountCalls(d.ups, "frame", f)]
    /\ ctrlCount' = [r \in 1..Len(d.request) |->
                      (IF r <= Len(ctrlCount) THEN ctrlCount[r] ELSE 0)
                      + CountCalls(d.ctrls, "req", r)]
    /\ UNCHANGED traciVars

\* the host re-schedules a message at the returned time, or not at all
Reschedule(timers, id, ret) ==
    [timers EXCEPT ![id] = IF ret < 0 THEN notAgain ELSE ret]

Init ==
    /\ now = 0
    /\ currentSignal = [first |-> 0, second |-> "NEW"]
    /\ isChannelIdle = TRUE
    /\ currentChannelSenseRequest = [first |-> 0, second |-> -1]
    /\ signal = << >>
    /\ request = << >>
    /\ thermalNoise \in {[present |-> FALSE, val |-> 0], [present |-> TRUE, val |-> 1]}
    /\ frameTimer = << >>
    /\ csrTimer = << >>
    /\ accepted = {}
    /\ upCount = << >>
    /\ ctrlCount = << >>
    /\ ev = Event("init", "", 0, Decider, TRUE, 0)
    /\ aborted = FALSE
    /\ initialize(NoManager)

\* an AirFrame reaches the receiver at its signal start: first processSignal
NewAirFrame(len, power) ==
    /\ ~aborted
    /\ Len(signal) < MaxFrames
    /\ now + len <= MaxTime
    /\ LET f == Len(signal) + 1
           d == [Decider EXCEPT !.signal =
                    Append(@, [start |-> now, length |-> len, power |-> power])]
       IN \E d2 \in {processSignal(d, f)} :
          /\ Commit(d2)
          /\ csrTimer' = d2.csrTimer
          /\ frameTimer' = Reschedule(Append(frameTimer, notAgain), f, d2.ret)
          /\ accepted' = IF d2.ret # notAgain THEN accepted \cup {f} ELSE accepted
          /\ aborted' = d2.error
          /\ ev' = Event("frame", "new", f, d2, d2.isChannelIdle, 0)
    /\ UNCHANGED <<now, thermalNoise>>

\* the host re-invokes processSignal at the time the decider asked for
FrameWake(f) ==
    /\ ~aborted
    /\ frameTimer[f] = now
    /\ \E d2 \in {processSignal(Decider, f)} :
          /\ Commit(d2)
          /\ csrTimer' = d2.csrTimer
          /\ frameTimer' = Reschedule(frameTimer, f, d2.ret)
          /\ aborted' = d2.error
          /\ ev' = Event("frame", "wake", f, d2, d2.isChannelIdle, 0)
    /\ UNCHANGED <<now, thermalNoise, accepted>>

\* the host hands a null AirFrame pointer to processSignal
NullAirFrame ==
    /\ ~aborted
    /\ \E d2 \in {processSignal(Decider, 0)} :
          /\ Commit(d2)
          /\ csrTimer' = d2.csrTimer
          /\ aborted' = d2.error
          /\ ev' = Event("frame", "null", 0, d2, d2.isChannelIdle, 0)
    /\ UNCHANGED <<now, thermalNoise, frameTimer, accepted>>

\* the MAC hands a new ChannelSenseRequest to the decider
NewSenseRequest(mode, timeout) ==
    /\ ~aborted
    /\ Len(request) < MaxRequests
    /\ now + timeout <= MaxTime
    /\ LET r == Len(request) + 1
           d == [Decider EXCEPT
                    !.request = Append(@, [mode |-> mode, timeout |-> timeout]),
                    !.csrTimer = Append(@, notAgain)]
       IN \E d2 \in {handleChannelSenseRequest(d, r)} :
          /\ Commit(d2)
          /\ csrTimer' = Reschedule(d2.csrTimer, r, d2.ret)
          /\ aborted' = d2.error
          /\ ev' = Event("csr", "new", r, d2, d2.isChannelIdle, 0)
    /\ UNCHANGED <<now, thermalNoise, frameTimer, accepted>>

\* the scheduled timeout of a request fires: the host hands it over again
SenseTimeout(r) ==
    /\ ~aborted
    /\ csrTimer[r] = now
    /\ \E d2 \in {handleChannelSenseRequest(Decider, r)} :
          /\ Commit(d2)
          /\ csrTimer' = Reschedule(d2.csrTimer, r, d2.ret)
          /\ aborted' = d2.error
          /\ ev' = Event("csr", "timeout", r, d2, d2.isChannelIdle, 0)
    /\ UNCHANGED <<now, thermalNoise, frameTimer, accepted>>

\* the MAC hands a null request pointer to handleChannelSenseRequest
NullSenseRequest ==
    /\ ~aborted
    /\ \E d2 \in {handleChannelSenseRequest(Decider, 0)} :
          /\ Commit(d2)
          /\ csrTimer' = d2.csrTimer
          /\ aborted' = d2.error
          /\ ev' = Event("csr", "null", 0, d2, d2.isChannelIdle, 0)
    /\ UNCHANGED <<now, thermalNoise, frameTimer, accepted>>

\* the MAC asks for the current channel state
QueryChannelState ==
    /\ ~aborted
    /\ \E d2 \in {getChannelState(Decider)} :
          /\ Commit(d2)
          /\ csrTimer' = d2.csrTimer
          /\ aborted' = d2.error
          /\ ev' = Event("state", "", 0, d2, d2.cs.idle, d2.cs.rssi)
    /\ UNCHANGED <<now, thermalNoise, frameTimer, accepted>>

\* simulated time advances once every message scheduled for now is handled
Tick ==
    /\ ~aborted
    /\ now < MaxTime
    /\ \A f \in 1..Len(frameTimer) : frameTimer[f] # now
    /\ \A r \in 1..Len(csrTimer) : csrTimer[r] # now
    /\ now' = now + 1
    /\ signal' = Sweep(signal, now + 1, currentChannelSenseRequest)
    /\ ev' = Event("tick", "", 0, Decider, isChannelIdle, 0)
    /\ UNCHANGED <<currentSignal, isChannelIdle, currentChannelSenseRequest,
                   request, thermalNoise, frameTimer, csrTimer, accepted, upCount,
                   ctrlCount, aborted, traciVars>>

Next ==
    \/ \E len \in 1..MaxLen, power \in Powers : NewAirFrame(len, power)
    \/ \E f \in 1..Len(signal) : FrameWake(f)
    \/ NullAirFrame
    \/ \E mode \in SenseModes, timeout \in 0..MaxTimeout : NewSenseRequest(mode, timeout)
    \/ \E r \in 1..Len(request) : SenseTimeout(r)
    \/ NullSenseRequest
    \/ QueryChannelState
    \/ Tick

Spec == Init /\ [][Next]_vars

\* The scheduler delivers every message scheduled at a returned wake time and
\* not cancelled once that time is reached, and lets simulated time advance
\* when nothing is left to deliver at the current time.
Deliver ==
    \/ \E f \in 1..Len(signal) : FrameWake(f)
    \/ \E r \in 1..Len(request) : SenseTimeout(r)

\* a scheduled message is due
Due ==
    \/ \E f \in 1..Len(frameTimer) : frameTimer[f] = now
    \/ \E r \in 1..Len(csrTimer) : csrTimer[r] = now

\* ENABLED <<Deliver>>_vars as a state predicate: the handlers are total, and
\* a delivery always takes the delivered message off the schedule
DeliverEnabled == Due /\ ~aborted

DeliverEnabledExact == (ENABLED <<Deliver>>_vars) <=> DeliverEnabled

\* weak fairness of Tick and of Deliver, the latter with its enabling
\* condition written as DeliverEnabled
FairSpec ==
    /\ Spec
    /\ WF_vars(Tick)
    /\ ([]<>(~DeliverEnabled) \/ []<><<Deliver>>_vars)

\* a host that may also hand the outstanding request over again before the
\* timeout it scheduled; the delivery takes the place of the scheduled one
SenseRedelivery(r) ==
    /\ ~aborted
    /\ r = currentChannelSenseRequest.first
    /\ csrTimer[r] # now
    /\ \E d2 \in {handleChannelSenseRequest(Decider, r)} :
          /\ Commit(d2)
          /\ csrTimer' = Reschedule(d2.csrTimer, r, d2.ret)
          /\ aborted' = d2.error
          /\ ev' = Event("csr", "early", r, d2, d2.isChannelIdle, 0)
    /\ UNCHANGED <<now, thermalNoise, frameTimer, accepted>>

NextAnyTime ==
    \/ Next
    \/ \E r \in 1..Len(request) : SenseRedelivery(r)

SpecAnyTime == Init /\ [][NextAnyTime]_vars

\* a host that may also hand an AirFrame still on the air to processSignal
\* again although the decider did not ask for it: an AirFrame it refused or
\* one it has handed up already; the MAC stays silent in these runs
FrameRedelivery(f) ==
    /\ ~aborted
    /\ f # currentSignal.first
    /\ signal[f] # NoSignal
    /\ now <= signal[f].start + signal[f].length
    /\ upCount[f] < MaxUps
    /\ \E d2 \in {processSignal(Decider, f)} :
          /\ Commit(d2)
          /\ csrTimer' = d2.csrTimer
          /\ frameTimer' = Reschedule(frameTimer, f, d2.ret)
          /\ accepted' = IF d2.ret # notAgain THEN accepted \cup {f} ELSE accepted
          /\ aborted' = d2.error
          /\ ev' = Event("frame", "again", f, d2, d2.isChannelIdle, 0)
    /\ UNCHANGED <<now, thermalNoise>>

NextRedeliver ==
    \/ \E len \in 1..MaxLen, power \in Powers : NewAirFrame(len, power)
    \/ \E f \in 1..Len(signal) : FrameWake(f)
    \/ \E f \in 1..Len(signal) : FrameRedelivery(f)
    \/ Tick

SpecRedeliver == Init /\ [][NextRedeliver]_vars

(* ---------------- the mappings on an arbitrary channel ------------------ *)
\* the AirFrames a channel of the run can hold, and the channels made of them
ChannelFrames ==
    {fr \in [start : 0..(MaxTime - 1), length : 1..MaxLen, power : Powers] :
        fr.start + fr.length <= MaxTime}

Channels == UNION {[1..n -> ChannelFrames] : n \in 0..MaxFrames}

\* an idle decider at time MaxTime on a channel holding any AirFrames
MapInit ==
    /\ now = MaxTime
    /\ currentSignal = [first |-> 0, second |-> "NEW"]
    /\ isChannelIdle = TRUE
    /\ currentChannelSenseRequest = [first |-> 0, second |-> -1]
    /\ signal \in Channels
    /\ request = << >>
    /\ thermalNoise \in {[present |-> FALSE, val |-> 0], [present |-> TRUE, val |-> 1]}
    /\ frameTimer = [f \in 1..Len(signal) |-> notAgain]
    /\ csrTimer = << >>
    /\ accepted = {}
    /\ upCount = [f \in 1..Len(signal) |-> 0]
    /\ ctrlCount = << >>
    /\ ev = Event("init", "", 0, Decider, TRUE, 0)
    /\ aborted = FALSE
    /\ initialize(NoManager)

\* a caller asks for the RSSI mapping of a window, one AirFrame left out or
\* none (exclude = 0); the mapping functions leave the decider and the
\* channel as they are, so one call on each channel shows all they do
CallCalculateRSSIMapping(start, end, exclude) ==
    /\ ev.kind = "init"
    /\ ev' = [kind |-> "rssi", sub |-> "", id |-> exclude,
              start |-> start, end |-> end,
              map |-> calculateRSSIMapping(Decider, start, end, exclude),
              heap |-> calculateRSSIMappingAlloc(EmptyHeap, Decider, start, end,
                                                 exclude)]
    /\ UNCHANGED <<now, currentSignal, isChannelIdle, currentChannelSenseRequest,
                   signal, request, thermalNoise, frameTimer, csrTimer, accepted,
                   upCount, ctrlCount, aborted, traciVars>>

\* a caller asks for the SNR mapping of an AirFrame of the channel
CallCalculateSnrMapping(frame) ==
    /\ ev.kind = "init"
    /\ ev' = [kind |-> "snr", sub |-> "", id |-> frame,
              start |-> signal[frame].start,
              end |-> signal[frame].start + signal[frame].length,
              map |-> calculateSnrMapping(Decider, frame),
              heap |-> calculateSnrMappingAlloc(EmptyHeap, Decider, frame)]
    /\ UNCHANGED <<now, currentSignal, isChannelIdle, currentChannelSenseRequest,
                   signal, request, thermalNoise, frameTimer, csrTimer, accepted,
                   upCount, ctrlCount, aborted, traciVars>>

\* a caller asks for the largest RSSI of a window
CallCalcChannelSenseRSSI(start, end) ==
    /\ ev.kind = "init"
    /\ ev' = [kind |-> "sense", sub |-> "", id |-> 0,
              start |-> start, end |-> end,
              rssi |-> calcChannelSenseRSSI(Decider, start, end),
              heap |-> calcChannelSenseRSSIAlloc(EmptyHeap, Decider, start, end)]
    /\ UNCHANGED <<now, currentSignal, isChannelIdle, currentChannelSenseRequest,
                   signal, request, thermalNoise, frameTimer, csrTimer, accepted,
                   upCount, ctrlCount, aborted, traciVars>>

\* a caller asks for the RSSI mapping of a window, getChannelInfo filling
\* the vector in one of its orders
CallCalculateRSSIMappingInOrder(start, end, exclude) ==
    /\ ev.kind = "init"
    /\ \E airFrames \in Orders(getChannelInfo(Decider, start, end)) :
          ev' = [kind |-> "order", sub |-> "", id |-> exclude,
                 start |-> start, end |-> end, airFrames |-> airFrames,
                 map |-> calculateRSSIMappingOver(Decider, airFrames, start, end,
                                                  exclude)]
    /\ UNCHANGED <<now, currentSignal, isChannelIdle, currentChannelSenseRequest,
                   signal, request, thermalNoise, frameTimer, csrTimer, accepted,
                   upCount, ctrlCount, aborted, traciVars>>

MapNext ==
    \/ \E start \in TimeDom : \E end \in start..MaxTime : \E exclude \in 0..Len(signal) :
          CallCalculateRSSIMapping(start, end, exclude)
    \/ \E frame \in 1..Len(signal) : CallCalculateSnrMapping(frame)
    \/ \E start \in TimeDom : \E end \in start..MaxTime :
          CallCalcChannelSenseRSSI(start, end)
    \/ \E start \in TimeDom : \E end \in start..MaxTime : \E exclude \in 0..Len(signal) :
          CallCalculateRSSIMappingInOrder(start, end, exclude)

MapSpec == MapInit /\ [][MapNext]_vars

(* ------------------ the scenario manager's own events ------------------- *)
NoResult ==
    [cmd |-> "", objectId |-> "", var |-> "", ids |-> {}, numRead |-> 0, p |-> 0]

\* the subscription results a step can read: arrival, teleport and
\* departure reports, the list of driving vehicles, the data of one vehicle
\* (complete or one attribute short), and a response of a kind the manager
\* does not know
\* the first n node ids: a departure report is read for its count only
FirstNodeIds(n) == {VehicleName(vehicleTypeIds[1], k) : k \in 0..(n - 1)}

SubscriptionResults ==
    {[NoResult EXCEPT !.cmd = "RESPONSE_SUBSCRIBE_SIM_VARIABLE", !.var = v,
                      !.ids = ids] :
        v \in {"VAR_ARRIVED_VEHICLES_IDS", "VAR_TELEPORT_STARTING_VEHICLES_IDS"},
        ids \in SUBSET NodeIds}
    \cup {[NoResult EXCEPT !.cmd = "RESPONSE_SUBSCRIBE_SIM_VARIABLE",
                           !.var = "VAR_DEPARTED_VEHICLES_IDS",
                           !.ids = FirstNodeIds(n)] : n \in 0..MaxNodes}
    \cup {[NoResult EXCEPT !.cmd = "RESPONSE_SUBSCRIBE_VEHICLE_VARIABLE",
                           !.var = "ID_LIST", !.ids = ids] : ids \in SUBSET NodeIds}
    \cup {[NoResult EXCEPT !.cmd = "RESPONSE_SUBSCRIBE_VEHICLE_VARIABLE",
                           !.objectId = id, !.numRead = 9, !.p = p] :
             id \in NodeIds, p \in Positions}
    \cup {[NoResult EXCEPT !.cmd = "RESPONSE_SUBSCRIBE_VEHICLE_VARIABLE",
                           !.objectId = id, !.numRead = 8] : id \in NodeIds}
    \cup {[NoResult EXCEPT !.cmd = "RESPONSE_SUBSCRIBE_GUI_VARIABLE"]}

\* the draws of mobRng in one insertNewVehicle
RngDraws ==
    [vehTypeId : 0..(Len(vehicleTypeIds) - 1), routeId : 0..(Len(routeIds) - 1)]

\* how many vehicles the step message due at time t makes the manager queue
NewVehicles(t) ==
    LET i == activeVehicleCount + Cardinality(queuedVehicles)
    IN IF t > 1 /\ i < par.numVehicles THEN par.numVehicles - i ELSE 0

ManagerEvent(kind, id, r, rng, suc, m2) ==
    [kind |-> kind, id |-> id, var |-> r.var, rng |-> rng, suc |-> suc,
     error |-> m2.error, deleted |-> m2.deleted, scheduled |-> m2.scheduled,
     attempts |-> m2.attempts]

\* write a handler's result back to the manager's fields
CommitManager(m2) ==
    /\ now' = m2.simTime
    /\ par' = m2.par
    /\ connection' = m2.connection
    /\ hostModules' = m2.hostModules
    /\ equippedHostPositions' = m2.equippedHostPositions
    /\ unequippedHostPositions' = m2.unequippedHostPositions
    /\ subscribedVehicles' = m2.subscribedVehicles
    /\ queuedVehicles' = m2.queuedVehicles
    /\ vehicleInsertQueue' = m2.vehicleInsertQueue
    /\ vehicleNameCounter' = m2.vehicleNameCounter
    /\ nextNodeVectorIndex' = m2.nextNodeVectorIndex
    /\ activeVehicleCount' = m2.activeVehicleCount
    /\ autoShutdownTriggered' = m2.autoShutdownTriggered
    /\ executeOneTimestepTrigger' = m2.executeOneTimestepTrigger
    /\ pending' = m2.pending
    /\ addedVehicles' = m2.addedVehicles
    /\ aborted' = (m2.error # NoError)
    /\ UNCHANGED deciderVars

\* a manager after initialize() next to an idle decider
ManagerInit(numVehicles) ==
    /\ now = 0
    /\ currentSignal = [first |-> 0, second |-> "NEW"]
    /\ isChannelIdle = TRUE
    /\ currentChannelSenseRequest = [first |-> 0, second |-> -1]
    /\ signal = << >>
    /\ request = << >>
    /\ thermalNoise = [present |-> FALSE, val |-> 0]
    /\ frameTimer = << >>
    /\ csrTimer = << >>
    /\ accepted = {}
    /\ upCount = << >>
    /\ ctrlCount = << >>
    /\ \E p \in Parameters(numVehicles) : initialize(p)
    /\ ev = [kind |-> "init", id |-> "", var |-> "", rng |-> << >>,
             suc |-> << >>, error |-> NoError, deleted |-> << >>,
             scheduled |-> << >>, attempts |-> << >>]
    /\ aborted = FALSE

\* the connect message arrives at connectAt
ConnectAndStart ==
    /\ ~aborted
    /\ connection = 0
    /\ pending = 0
    /\ executeOneTimestepTrigger >= par.connectAt
    /\ \E m2 \in {handleSelfMsg([Manager EXCEPT !.simTime = par.connectAt],
                                "connectAndStartTrigger", << >>, << >>, 0)} :
          /\ CommitManager(m2)
          /\ ev' = ManagerEvent("connect", "", NoResult, << >>, << >>, m2)

\* the step message arrives: the manager queues and inserts vehicles of its
\* own, asks the server for the step and learns how many results follow
ExecuteOneTimestep(rng, suc, count) ==
    /\ ~aborted
    /\ pending = 0
    /\ executeOneTimestepTrigger >= 0
    /\ executeOneTimestepTrigger <= MaxSteps
    /\ connection = 0 => executeOneTimestepTrigger < par.connectAt
    /\ \E m2 \in {handleSelfMsg(
                      [Manager EXCEPT !.simTime = executeOneTimestepTrigger,
                                      !.executeOneTimestepTrigger = -1],
                      "executeOneTimestepTrigger", rng, suc, count)} :
          /\ CommitManager(m2)
          /\ ev' = ManagerEvent("step", "", NoResult, rng, suc, m2)

\* the step reads its next subscription result; the server reports no more
\* arrivals than departures, and at most MaxNodes vehicles under way
ProcessSubcriptionResult(r) ==
    /\ ~aborted
    /\ pending > 0
    /\ r.var \in {"VAR_ARRIVED_VEHICLES_IDS", "VAR_TELEPORT_STARTING_VEHICLES_IDS"}
          => Cardinality(r.ids) <= activeVehicleCount
    /\ r.var \in {"VAR_DEPARTED_VEHICLES_IDS", "VAR_TELEPORT_ENDING_VEHICLES_IDS"}
          => activeVehicleCount + Cardinality(r.ids) <= MaxNodes
    /\ \E m2 \in {executeOneTimestepResult(Manager, r)} :
          /\ CommitManager(m2)
          /\ ev' = ManagerEvent("result", "", r, << >>, << >>, m2)

TraCINext ==
    \/ ConnectAndStart
    \/ \E count \in 0..MaxResults : ExecuteOneTimestep(<< >>, << >>, count)
    \/ \E r \in SubscriptionResults : ProcessSubcriptionResult(r)

\* the manager of a scenario without vehicles of its own, fed by the server
TraCISpec == ManagerInit({0}) /\ [][TraCINext]_vars

InsertNext ==
    \/ ConnectAndStart
    \/ \E rng \in [1..NewVehicles(executeOneTimestepTrigger) -> RngDraws] :
          \E suc \in [1..NewVehicles(executeOneTimestepTrigger) -> BOOLEAN] :
             ExecuteOneTimestep(rng, suc, 0)

\* the manager of a scenario that inserts up to MaxVehicles vehicles of its
\* own; the server accepts or refuses each and announces no results
InsertSpec == ManagerInit(1..MaxVehicles) /\ [][InsertNext]_vars

\* a subclass or another module calls addModule / deleteManagedModule of
\* the connected manager
CallAddModule(nodeId, position) ==
    /\ ~aborted
    /\ connection # 0
    /\ pending = 0
    /\ nextNodeVectorIndex < MaxNodes
    /\ \E m2 \in {addModule(Manager, nodeId, position)} :
          /\ CommitManager(m2)
          /\ ev' = ManagerEvent("add", nodeId, NoResult, << >>, << >>, m2)

CallDeleteManagedModule(nodeId) ==
    /\ ~aborted
    /\ connection # 0
    /\ pending = 0
    /\ \E m2 \in {deleteManagedModule(Manager, nodeId)} :
          /\ CommitManager(m2)
          /\ ev' = ManagerEvent("delete", nodeId, NoResult, << >>, << >>, m2)

CallNext ==
    \/ InsertNext
    \/ \E nodeId \in NodeIds, position \in par.roi : CallAddModule(nodeId, position)
    \/ \E nodeId \in NodeIds : CallDeleteManagedModule(nodeId)

\* the manager of a scenario that keeps one vehicle of its own queued,
\* its modules added and deleted by direct calls
CallSpec == ManagerInit({1}) /\ [][CallNext]_vars

(* ============================== claims ================================== *)
\* the last step was processSignal for AirFrame ev.id, first delivery / wake
IsNewFrameEvent == ev.kind = "frame" /\ ev.sub = "new"
IsWakeEvent == ev.kind = "frame" /\ ev.sub = "wake"
\* receiving power of the event's AirFrame at its own signal start
EvPowerAtStart == getReceivingPower(Decider, ev.id).val[signal[ev.id].start]
EvSignalEnd == signal[ev.id].start + signal[ev.id].length
ModeFulfilled(mode, idle) == IF mode = "UNTIL_IDLE" THEN idle ELSE ~idle
CanAnswer == canAnswerCSR(Decider, currentChannelSenseRequest)

\* C1: with no reception in progress, a new AirFrame whose receiving power at
\* its signal start is >= sensitivity (equality included) becomes the current
\* signal in state EXPECT_END, the channel turns busy and the returned time is
\* exactly signal start + signal length.
C1_AcceptStrongSignal ==
    (IsNewFrameEvent /\ ev.preFirst = 0 /\ EvPowerAtStart >= sensitivity)
        => /\ currentSignal = [first |-> ev.id, second |-> "EXPECT_END"]
           /\ ~isChannelIdle
           /\ ev.ret = EvSignalEnd

C1_Witness ==
    /\ IsNewFrameEvent /\ ev.preFirst = 0 /\ EvPowerAtStart = sensitivity
    /\ currentSignal.first = ev.id /\ ev.ret = EvSignalEnd /\ now > 0

\* C2: a new AirFrame whose receiving power at its signal start is below the
\* sensitivity is answered with notAgain and leaves the channel-idle flag as
\* it was, whether the channel was idle or busy.
C2_RejectWeakSignal ==
    (IsNewFrameEvent /\ EvPowerAtStart < sensitivity)
        => ev.ret = notAgain /\ isChannelIdle = ev.preIdle

C2_Witness ==
    /\ IsNewFrameEvent /\ EvPowerAtStart < sensitivity
    /\ ev.preFirst = 0 /\ ev.ret = notAgain /\ isChannelIdle

\* C3: at most one AirFrame is awaited in EXPECT_END, namely the current
\* signal, and a new AirFrame arriving while another one is the current signal
\* is answered with notAgain whatever its power, the current signal staying.
C3_SingleReception ==
    /\ Cardinality({f \in 1..Len(frameTimer) : frameTimer[f] # notAgain}) <= 1
    /\ \A f \in 1..Len(frameTimer) :
          frameTimer[f] # notAgain
            => currentSignal = [first |-> f, second |-> "EXPECT_END"]
    /\ (IsNewFrameEvent /\ ev.preFirst # 0)
          => ev.ret = notAgain /\ currentSignal.first = ev.preFirst

C3_Witness ==
    /\ IsNewFrameEvent /\ ev.preFirst # 0 /\ EvPowerAtStart >= sensitivity
    /\ ev.ret = notAgain /\ currentSignal.first = ev.preFirst

\* C4: processSignal called again for the current signal at the end time
\* returned for it hands that AirFrame up exactly once with a positive result,
\* clears the current signal, turns the channel idle and returns notAgain.
C4_SignalEnd ==
    (IsWakeEvent /\ ev.preFirst = ev.id)
        => /\ Len(ev.ups) = 1
           /\ ev.ups[1].frame = ev.id /\ ev.ups[1].result
           /\ now = ev.ups[1].ends
           /\ currentSignal.first = 0
           /\ isChannelIdle
           /\ ev.ret = notAgain

C4_Witness ==
    /\ IsWakeEvent /\ ev.preFirst = ev.id /\ ~ev.preIdle
    /\ upCount[ev.id] = 1 /\ isChannelIdle /\ currentSignal.first = 0

\* C5: sendUp is called exactly once per accepted AirFrame and only at its
\* signal end: never for a refused AirFrame, never before the end, never twice;
\* an accepted AirFrame not yet handed up is the current signal and is
\* scheduled for its signal end.
C5_SendUpOncePerAccepted ==
    /\ \A f \in 1..Len(upCount) :
          /\ upCount[f] <= 1
          /\ f \notin accepted => upCount[f] = 0
          /\ f \in accepted =>
                IF currentSignal.first = f
                THEN upCount[f] = 0 /\ now <= frameTimer[f]
                     /\ frameTimer[f] = signal[f].start + signal[f].length
                ELSE upCount[f] = 1
    /\ \A i \in 1..Len(ev.ups) :
          ev.kind = "frame" /\ ev.ups[i].frame \in accepted /\ now = ev.ups[i].ends

C5_Witness ==
    \E f \in 1..Len(upCount), g \in 1..Len(upCount) :
        /\ f \in accepted /\ upCount[f] = 1
        /\ g \notin accepted /\ upCount[g] = 0
        /\ Len(ev.ups) = 1 /\ ev.ups[1].frame = f

\* C6: sendControlMsg is called exactly once per accepted sense request: a
\* request is either the outstanding one (not answered yet) or was answered
\* once; only the outstanding request has a timeout scheduled, so an early
\* answer leaves no timeout that could answer again.
C6_AnswerOncePerRequest ==
    /\ \A r \in 1..Len(ctrlCount) :
          /\ ctrlCount[r] =
                IF \/ r = currentChannelSenseRequest.first
                   \/ (aborted /\ ev.kind = "csr" /\ ev.sub = "new" /\ r = ev.id)
                THEN 0 ELSE 1
          /\ csrTimer[r] # notAgain => r = currentChannelSenseRequest.first
    /\ Len(ev.ctrls) <= 1

C6_Witness ==
    /\ ev.kind = "frame" /\ Len(ev.ctrls) = 1
    /\ now < ev.ctrls[1].since + ev.ctrls[1].timeout
    /\ ctrlCount[ev.ctrls[1].req] = 1
    /\ csrTimer[ev.ctrls[1].req] = notAgain

\* C7: once canAnswerCSR holds for the outstanding request it holds after
\* every step that does not answer that request.
C7_CanAnswerMonotonic ==
    [][(/\ CanAnswer
        /\ currentChannelSenseRequest'.first = currentChannelSenseRequest.first
        /\ ctrlCount' = ctrlCount) => CanAnswer']_vars

C7_Witness ==
    /\ CanAnswer
    /\ ev.kind \in {"frame", "state"}
    /\ ev.preCsr = currentChannelSenseRequest.first

\* C8: a sense request answered before start + timeout is answered with its
\* mode fulfilled by the channel-idle flag it carries; any other answer is
\* given exactly at start + timeout.
C8_EarlyAnswerOnlyWhenFulfilled ==
    \A i \in 1..Len(ev.ctrls) :
        LET c == ev.ctrls[i] IN
        /\ c.idle = isChannelIdle
        /\ now < c.since + c.timeout => ModeFulfilled(c.mode, c.idle)
        /\ ~ModeFulfilled(c.mode, c.idle) => now = c.since + c.timeout

C8_Witness ==
    /\ ev.kind = "frame" /\ Len(ev.ctrls) = 1
    /\ now < ev.ctrls[1].since + ev.ctrls[1].timeout
    /\ ModeFulfilled(ev.ctrls[1].mode, isChannelIdle)
    /\ ev.ctrls[1].mode = "UNTIL_IDLE"

\* C9: calcChannelSenseRSSI over a window with no overlapping AirFrame and no
\* thermal noise returns 0, never a negative value.
C9_EmptyWindowYieldsZero ==
    \A s \in 0..now : \A e \in s..now :
        (~thermalNoise.present /\ getChannelInfo(Decider, s, e) = << >>)
            => calcChannelSenseRSSI(Decider, s, e) = 0

\* C10: the intensity handed to a caller, in the answer of a sense request and
\* in the result of getChannelState, is never negative.
C10_NoNegativeIntensity ==
    /\ ev.kind = "state" => ev.rssi >= 0
    /\ \A i \in 1..Len(ev.ctrls) : ev.ctrls[i].rssi >= 0

\* membership in an AirFrame vector
InVector(f, airFrames) == \E i \in 1..Len(airFrames) : airFrames[i] = f
\* the last step built the RSSI mapping of [ev.start, ev.end] without ev.id
IsExcludeEvent == ev.kind = "rssi" /\ ev.id # 0
\* that mapping with the receiving power of the excluded AirFrame added back
AddedBack == MappingAdd(getReceivingPower(Decider, ev.id), ev.map)
\* the mapping of the same window with no exclusion
Unexcluded == calculateRSSIMapping(Decider, ev.start, ev.end, 0)

\* C11 as stated: for every window [start, end] and every AirFrame T,
\* calculateRSSIMapping(start, end, T) with T's receiving power added back
\* is the mapping calculateRSSIMapping(start, end, no exclusion).
C11_ExcludeRoundTrip ==
    IsExcludeEvent => AddedBack = Unexcluded

\* C11, amended: the round trip reproduces the unexcluded mapping for every
\* AirFrame T that getChannelInfo(start, end) returns; for an AirFrame that
\* does not intersect the window the two mappings agree at the instants of
\* the window only, T's power being added where the unexcluded sum has none.
C11_ExcludeRoundTripInWindow ==
    IsExcludeEvent =>
        /\ InVector(ev.id, getChannelInfo(Decider, ev.start, ev.end))
              => AddedBack = Unexcluded
        /\ \A t \in ev.start..ev.end : AddedBack.val[t] = Unexcluded.val[t]

C11_Witness ==
    /\ IsExcludeEvent
    /\ Len(getChannelInfo(Decider, ev.start, ev.end)) = 2
    /\ InVector(ev.id, getChannelInfo(Decider, ev.start, ev.end))
    /\ thermalNoise.present
    /\ ev.map.val[ev.start] < Unexcluded.val[ev.start]
    /\ AddedBack = Unexcluded

\* the last step handed a request not seen before to handleChannelSenseRequest
IsNewRequestEvent == ev.kind = "csr" /\ ev.sub = "new"
\* that request: taken from the answer if it was answered in the call, from
\* the ChannelSenseRequest itself otherwise
EvRequest ==
    IF Len(ev.ctrls) > 0 /\ ev.ctrls[1].req = ev.id
    THEN [mode |-> ev.ctrls[1].mode, timeout |-> ev.ctrls[1].timeout]
    ELSE request[ev.id]
EvModeFulfilled ==
    \/ EvRequest.mode = "UNTIL_IDLE" /\ ev.preIdle
    \/ EvRequest.mode = "UNTIL_BUSY" /\ ~ev.preIdle
\* calcChannelSenseRSSI over [start, end] as answerCSR hands it on
ClampedRSSI(start, end) ==
    LET rssiValue == calcChannelSenseRSSI(Decider, start, end)
    IN IF rssiValue < 0 THEN 0 ELSE rssiValue

\* C12: a request handed over while none is outstanding, its mode already
\* fulfilled by the channel-idle flag (UNTIL_IDLE on an idle channel,
\* UNTIL_BUSY on a busy one), is answered within that call by exactly one
\* sendControlMsg, the call returns notAgain, no request is outstanding
\* afterwards, and the answer carries the clamped maximum over [now, now],
\* which is 0 when neither an AirFrame nor thermal noise contributes.
C12_AnswerAtOnce ==
    (IsNewRequestEvent /\ ev.preCsr = 0 /\ EvModeFulfilled)
        => /\ Len(ev.ctrls) = 1
           /\ ev.ctrls[1].req = ev.id
           /\ ev.ctrls[1].since = now
           /\ ev.ctrls[1].idle = ev.preIdle
           /\ ev.ctrls[1].rssi = ClampedRSSI(now, now)
           /\ (~thermalNoise.present /\ getChannelInfo(Decider, now, now) = << >>)
                 => ev.ctrls[1].rssi = 0
           /\ ev.ret = notAgain
           /\ currentChannelSenseRequest.first = 0
           /\ csrTimer[ev.id] = notAgain
           /\ ctrlCount[ev.id] = 1

C12_Witness ==
    /\ IsNewRequestEvent /\ ev.preCsr = 0 /\ EvModeFulfilled
    /\ EvRequest.mode = "UNTIL_BUSY" /\ EvRequest.timeout > 0
    /\ Len(ev.ctrls) = 1 /\ ev.ctrls[1].rssi >= sensitivity
    /\ currentChannelSenseRequest.first = 0

\* C13: a request handed over while none is outstanding that cannot be
\* answered yet (mode not fulfilled, timeout not yet reached) becomes the
\* outstanding request with start time now, nothing is sent to the requester
\* and the returned wake time is exactly now + the request's timeout.
C13_RecordAndSchedule ==
    (IsNewRequestEvent /\ ev.preCsr = 0 /\ ~EvModeFulfilled /\ EvRequest.timeout # 0)
        => /\ currentChannelSenseRequest = [first |-> ev.id, second |-> now]
           /\ ev.ctrls = << >>
           /\ ctrlCount[ev.id] = 0
           /\ ev.ret = now + request[ev.id].timeout
           /\ csrTimer[ev.id] = ev.ret

C13_Witness ==
    /\ IsNewRequestEvent /\ ev.preCsr = 0 /\ ~EvModeFulfilled
    /\ request[ev.id].mode = "UNTIL_IDLE" /\ request[ev.id].timeout > 0
    /\ currentChannelSenseRequest = [first |-> ev.id, second |-> now]
    /\ ev.ret = now + request[ev.id].timeout /\ now > 0

\* C14: a request handed over while a different request is outstanding ends
\* the run with a fatal error: nothing is sent for either request, the
\* outstanding request, its start time and its scheduled timeout stay as they
\* were, and so do the channel-idle flag and the current signal; hence at
\* most one request is outstanding (has a timeout scheduled) at any time.
C14_SecondRequestFatal ==
    [][(/\ Len(request') = Len(request) + 1
        /\ currentChannelSenseRequest.first # 0)
       => /\ aborted'
          /\ ev'.ctrls = << >> /\ ev'.ups = << >>
          /\ ctrlCount' = Append(ctrlCount, 0)
          /\ currentChannelSenseRequest' = currentChannelSenseRequest
          /\ csrTimer' = Append(csrTimer, notAgain)
          /\ isChannelIdle' = isChannelIdle
          /\ currentSignal' = currentSignal
          /\ Cardinality({r \in 1..Len(csrTimer') : csrTimer'[r] # notAgain}) <= 1]_vars

C14_Witness ==
    /\ aborted /\ IsNewRequestEvent
    /\ ev.preCsr # 0 /\ ev.preCsr # ev.id
    /\ currentChannelSenseRequest.first = ev.preCsr
    /\ csrTimer[ev.preCsr] # notAgain
    /\ ev.ctrls = << >> /\ ~isChannelIdle

\* the last step handed the outstanding request itself over again
IsRedeliveryEvent ==
    ev.kind = "csr" /\ ev.sub \in {"timeout", "early"} /\ ev.preCsr = ev.id

\* C15: the outstanding request handed over again is answered in that call,
\* whether or not its mode is fulfilled and whether or not now is start +
\* timeout: exactly one sendControlMsg carrying the channel-idle flag of that
\* moment, the outstanding request is cleared and notAgain is returned.
C15_RedeliveryAnswers ==
    IsRedeliveryEvent
        => /\ Len(ev.ctrls) = 1
           /\ ev.ctrls[1].req = ev.id
           /\ ev.ctrls[1].idle = ev.preIdle /\ isChannelIdle = ev.preIdle
           /\ ev.ctrls[1].since <= now /\ ev.ctrls[1].rssi >= 0
           /\ ctrlCount[ev.id] = 1
           /\ currentChannelSenseRequest.first = 0
           /\ csrTimer[ev.id] = notAgain
           /\ ev.ret = notAgain

C15_Witness ==
    /\ IsRedeliveryEvent /\ ev.sub = "early"
    /\ Len(ev.ctrls) = 1
    /\ now < ev.ctrls[1].since + ev.ctrls[1].timeout
    /\ ev.ctrls[1].mode = "UNTIL_IDLE" /\ ~ev.ctrls[1].idle
    /\ currentChannelSenseRequest.first = 0

\* request r is the outstanding one / has been answered
Outstanding(r) == r <= Len(request) /\ currentChannelSenseRequest.first = r
Answered(r) == r <= Len(ctrlCount) /\ ctrlCount[r] = 1

\* C16: under a scheduler that delivers every scheduled, uncancelled message
\* at its time, and in a run not ended by a fatal error, every request taken
\* as the outstanding one is eventually answered: an outstanding request
\* eventually is outstanding no more, and a request that was taken and is not
\* outstanding has been answered. It is answered no later than the first of
\* the two occasions: while it is outstanding its mode is not fulfilled and
\* start + timeout, for which its timeout is scheduled, has not passed.
C16_EventuallyAnswered ==
    /\ (currentChannelSenseRequest.first # 0)
          ~> (currentChannelSenseRequest.first = 0 \/ aborted)
    /\ [](\A r \in 1..MaxRequests :
            /\ r <= Len(request) =>
                  \/ Outstanding(r)
                  \/ Answered(r)
                  \/ aborted /\ IsNewRequestEvent /\ ev.id = r
            /\ Outstanding(r) =>
                  /\ ~Answered(r)
                  /\ now <= currentChannelSenseRequest.second + request[r].timeout
                  /\ csrTimer[r] = currentChannelSenseRequest.second + request[r].timeout
                  /\ request[r].mode = "UNTIL_IDLE" => ~isChannelIdle
                  /\ request[r].mode = "UNTIL_BUSY" => isChannelIdle)

C16_Witness ==
    /\ ev.kind = "csr" /\ ev.sub = "timeout" /\ Answered(ev.id)
    /\ Len(ev.ctrls) = 1 /\ ev.ctrls[1].since < now
    /\ now = ev.ctrls[1].since + ev.ctrls[1].timeout
    /\ ev.ctrls[1].mode = "UNTIL_BUSY" /\ ev.ctrls[1].idle

\* C17: getChannelState is a pure query: a step that calls it leaves the
\* current signal, the channel-idle flag, the outstanding request and its
\* scheduled timeout as they were, calls neither sendUp nor sendControlMsg,
\* and returns the channel-idle flag with calcChannelSenseRSSI(now, now).
C17_GetChannelStatePure ==
    [][ev'.kind = "state"
       => /\ UNCHANGED <<currentSignal, isChannelIdle, currentChannelSenseRequest,
                         csrTimer, frameTimer, upCount, ctrlCount, aborted>>
          /\ ev'.ups = << >> /\ ev'.ctrls = << >>
          /\ ev'.idle = isChannelIdle
          /\ ev'.rssi = calcChannelSenseRSSI(Decider, now, now)]_vars

C17_Witness ==
    /\ ev.kind = "state" /\ ~ev.idle /\ ~isChannelIdle
    /\ currentSignal.first # 0
    /\ currentChannelSenseRequest.first # 0
    /\ ev.rssi >= sensitivity
    /\ ev.ctrls = << >>

\* C18: a null AirFrame handed to processSignal and a null request handed to
\* handleChannelSenseRequest end the run at the assertion: no field of the
\* decider is written, no signal is started or finished, nothing is sent.
C18_NullIsFatal ==
    [][ev'.sub = "null"
       => /\ aborted'
          /\ UNCHANGED <<currentSignal, isChannelIdle, currentChannelSenseRequest,
                         csrTimer, frameTimer, accepted, upCount, ctrlCount>>
          /\ ev'.ups = << >> /\ ev'.ctrls = << >>]_vars

C18_Witness ==
    /\ aborted /\ ev.sub = "null" /\ ev.kind = "frame"
    /\ currentSignal.first # 0 /\ currentChannelSenseRequest.first # 0
    /\ ev.ups = << >> /\ ev.ctrls = << >>
    /\ now = signal[currentSignal.first].start + signal[currentSignal.first].length

\* C19: an AirFrame arriving while another one is the current signal is
\* refused without side effect: notAgain is returned, the current signal,
\* the channel-idle flag and the outstanding request stay, neither sendUp nor
\* sendControlMsg is called, and the current signal stays scheduled for its
\* own end, not handed up yet.
C19_RejectWhileReceiving ==
    (IsNewFrameEvent /\ ev.preFirst # 0)
        => /\ ev.ret = notAgain /\ frameTimer[ev.id] = notAgain
           /\ ev.id \notin accepted
           /\ currentSignal = [first |-> ev.preFirst, second |-> "EXPECT_END"]
           /\ isChannelIdle = ev.preIdle /\ ~isChannelIdle
           /\ currentChannelSenseRequest.first = ev.preCsr
           /\ ev.ups = << >> /\ ev.ctrls = << >>
           /\ upCount[ev.id] = 0 /\ upCount[ev.preFirst] = 0
           /\ frameTimer[ev.preFirst]
                 = signal[ev.preFirst].start + signal[ev.preFirst].length

C19_Witness ==
    /\ IsNewFrameEvent /\ ev.preFirst # 0 /\ ev.id # ev.preFirst
    /\ ev.preCsr # 0 /\ currentChannelSenseRequest.first = ev.preCsr
    /\ ev.ret = notAgain /\ ev.ups = << >>
    /\ frameTimer[ev.preFirst] = now

\* the last step was a frame event that changed the channel-idle flag
IsFlipEvent == ev.kind = "frame" /\ isChannelIdle # ev.preIdle
\* the request that was outstanding when that event began: from the answer
\* if the event answered it, from the outstanding request otherwise
EvOutstanding ==
    IF Len(ev.ctrls) > 0 /\ ev.ctrls[1].req = ev.preCsr
    THEN [mode |-> ev.ctrls[1].mode, timeout |-> ev.ctrls[1].timeout,
          since |-> ev.ctrls[1].since]
    ELSE [mode |-> request[ev.preCsr].mode, timeout |-> request[ev.preCsr].timeout,
          since |-> currentChannelSenseRequest.second]
\* canAnswerCSR for that request with the flag as the flip left it
EvAnswerableAfterFlip ==
    \/ EvOutstanding.mode = "UNTIL_IDLE" /\ isChannelIdle
    \/ EvOutstanding.mode = "UNTIL_BUSY" /\ ~isChannelIdle
    \/ now = EvOutstanding.since + EvOutstanding.timeout

\* C20: when a frame event flips the channel-idle flag and the outstanding
\* request is answerable with the new flag, its scheduled timeout is
\* cancelled and it is answered within that event, the answer carrying the
\* new flag; when no request is outstanding or it is not answerable, nothing
\* is cancelled and nothing is answered.
C20_FlipAnswersRequest ==
    IsFlipEvent =>
        IF ev.preCsr = 0
        THEN ev.ctrls = << >> /\ currentChannelSenseRequest.first = 0
        ELSE IF EvAnswerableAfterFlip
        THEN /\ Len(ev.ctrls) = 1
             /\ ev.ctrls[1].req = ev.preCsr
             /\ ev.ctrls[1].idle = isChannelIdle
             /\ ev.ctrls[1].timer = notAgain
             /\ csrTimer[ev.preCsr] = notAgain
             /\ currentChannelSenseRequest.first = 0
        ELSE /\ ev.ctrls = << >>
             /\ currentChannelSenseRequest.first = ev.preCsr
             /\ csrTimer[ev.preCsr] = EvOutstanding.since + EvOutstanding.timeout

C20_Witness ==
    /\ IsFlipEvent /\ ev.sub = "new" /\ ev.preCsr # 0
    /\ Len(ev.ctrls) = 1 /\ ev.ctrls[1].mode = "UNTIL_BUSY"
    /\ now < ev.ctrls[1].since + ev.ctrls[1].timeout
    /\ ev.ctrls[1].timer = notAgain /\ ~ev.ctrls[1].idle
    /\ csrTimer[ev.preCsr] = notAgain /\ currentSignal.first = ev.id

\* C21: canAnswerCSR called from setChannelIdleStatus sees the flag as just
\* written: an answer given within a frame event is given in an event that
\* flipped the channel-idle flag, carries the flag after the flip, never the
\* one before it, and that flag fulfils the request's mode (idle for
\* UNTIL_IDLE, busy for UNTIL_BUSY).
C21_AnswerSeesFlip ==
    ev.kind = "frame" =>
        \A i \in 1..Len(ev.ctrls) :
            LET c == ev.ctrls[i] IN
            /\ isChannelIdle # ev.preIdle
            /\ c.idle = isChannelIdle /\ c.idle # ev.preIdle
            /\ c.mode = "UNTIL_IDLE" => c.idle
            /\ c.mode = "UNTIL_BUSY" => ~c.idle

C21_Witness ==
    /\ IsWakeEvent /\ Len(ev.ctrls) = 1 /\ ~ev.preIdle
    /\ ev.ctrls[1].mode = "UNTIL_IDLE" /\ ev.ctrls[1].idle
    /\ now < ev.ctrls[1].since + ev.ctrls[1].timeout
    /\ currentChannelSenseRequest.first = 0

\* the power of the AirFrames f.. of a channel at instant t, summed pointwise
RECURSIVE PowerSum(_, _, _)
PowerSum(chan, f, t) ==
    IF f > Len(chan) THEN 0
    ELSE (IF chan[f].start <= t /\ t <= chan[f].start + chan[f].length
          THEN chan[f].power ELSE 0) + PowerSum(chan, f + 1, t)
\* the total power at instant t: thermal noise, if any, plus every AirFrame
TotalPower(chan, t) ==
    (IF thermalNoise.present THEN thermalNoise.val ELSE 0) + PowerSum(chan, 1, t)
\* the largest total power over [start, end], a negative one replaced by 0
MaxTotalPower(chan, start, end) ==
    LET m == SetMax({TotalPower(chan, t) : t \in start..end})
    IN IF m < 0 THEN 0 ELSE m

\* C22: every answer sent with sendControlMsg carries the channel-idle flag
\* of the moment of answering and, as intensity, the maximum of the total
\* power over [start time of the request, now], a negative result replaced
\* by 0, so never a negative value; after the answer no request is
\* outstanding.
C22_AnswerContent ==
    \A i \in 1..Len(ev.ctrls) :
        LET c == ev.ctrls[i] IN
        /\ c.idle = isChannelIdle
        /\ c.since <= now
        /\ c.rssi = MaxTotalPower(c.chan, c.since, now)
        /\ c.rssi >= 0
        /\ currentChannelSenseRequest.first = 0

C22_Witness ==
    /\ Len(ev.ctrls) = 1 /\ ev.ctrls[1].since < now
    /\ ev.ctrls[1].rssi >= sensitivity
    /\ TotalPower(ev.ctrls[1].chan, now) < ev.ctrls[1].rssi
    /\ ev.ctrls[1].idle /\ currentChannelSenseRequest.first = 0

\* the answerability predicate written out for the outstanding request
Answerable ==
    /\ currentChannelSenseRequest.first # 0
    /\ LET req == request[currentChannelSenseRequest.first] IN
       \/ req.mode = "UNTIL_IDLE" /\ isChannelIdle
       \/ req.mode = "UNTIL_BUSY" /\ ~isChannelIdle
       \/ now = currentChannelSenseRequest.second + req.timeout

\* C23: canAnswerCSR is true exactly when a request is outstanding and its
\* mode is fulfilled (UNTIL_IDLE and idle, UNTIL_BUSY and busy) or now is its
\* start time + timeout, and false with no request outstanding: in every
\* state it agrees with the predicate written out, a new request is answered
\* in its call exactly when mode or time allow it, and so is the outstanding
\* request in an event that flips the flag. Hence a new request with timeout
\* 0 is answered at once, whatever its mode and the channel state.
C23_CanAnswerExact ==
    /\ CanAnswer <=> Answerable
    /\ currentChannelSenseRequest.first = 0 => ~CanAnswer
    /\ (IsNewRequestEvent /\ ev.preCsr = 0) =>
          /\ (Len(ev.ctrls) = 1) <=> (EvModeFulfilled \/ EvRequest.timeout = 0)
          /\ EvRequest.timeout = 0 =>
                /\ Len(ev.ctrls) = 1 /\ ev.ctrls[1].req = ev.id
                /\ ev.ctrls[1].since = now /\ ev.ret = notAgain
                /\ currentChannelSenseRequest.first = 0
    /\ IsFlipEvent =>
          (Len(ev.ctrls) = 1) <=> (ev.preCsr # 0 /\ EvAnswerableAfterFlip)

C23_Witness ==
    /\ IsNewRequestEvent /\ ev.preCsr = 0 /\ ~EvModeFulfilled
    /\ EvRequest.timeout = 0 /\ EvRequest.mode = "UNTIL_IDLE"
    /\ Len(ev.ctrls) = 1 /\ ~ev.ctrls[1].idle /\ ev.ret = notAgain
    /\ currentSignal.first # 0 /\ ~CanAnswer

\* C24: the channel-idle flag and the current signal are written by the
\* reception state machine only: a step that changes either is a frame
\* event, the acceptance of a new AirFrame (idle to busy, the AirFrame
\* becoming the current signal) or the end of the current signal (busy to
\* idle, the current signal cleared); handleChannelSenseRequest with a new
\* request or at the timeout, the answer it gives and getChannelState leave
\* both as they were.
C24_FlagWrittenByReceptionOnly ==
    [][/\ ev'.kind \in {"csr", "state", "tick"}
             => UNCHANGED <<isChannelIdle, currentSignal>>
       /\ (isChannelIdle' # isChannelIdle \/ currentSignal' # currentSignal)
             => /\ ev'.kind = "frame"
                /\ \/ /\ ev'.sub = "new" /\ ev'.ret # notAgain
                      /\ isChannelIdle /\ ~isChannelIdle'
                      /\ currentSignal.first = 0
                      /\ currentSignal' = [first |-> ev'.id, second |-> "EXPECT_END"]
                   \/ /\ ev'.sub = "wake" /\ Len(ev'.ups) = 1
                      /\ ~isChannelIdle /\ isChannelIdle'
                      /\ currentSignal.first = ev'.id
                      /\ currentSignal'.first = 0]_vars

C24_Witness ==
    /\ ev.kind = "csr" /\ ev.sub = "timeout" /\ Len(ev.ctrls) = 1
    /\ ~ev.preIdle /\ ~isChannelIdle /\ ~ev.ctrls[1].idle
    /\ ev.preFirst # 0 /\ currentSignal.first = ev.preFirst
    /\ frameTimer[currentSignal.first] = now

\* the last step built an RSSI mapping
IsRSSIEvent == ev.kind = "rssi"
\* AirFrame f has an instant in common with [start, end]
Intersects(f, start, end) ==
    signal[f].start <= end /\ start <= signal[f].start + signal[f].length
\* the receiving power at instant t of the AirFrames f.. of the channel that
\* intersect [start, end] and are not the AirFrame exclude, summed pointwise
RECURSIVE ContributionsFrom(_, _, _, _, _)
ContributionsFrom(f, start, end, exclude, t) ==
    IF f > Len(signal) THEN 0
    ELSE (IF f # exclude /\ Intersects(f, start, end)
             /\ signal[f].start <= t /\ t <= signal[f].start + signal[f].length
          THEN signal[f].power ELSE 0)
         + ContributionsFrom(f + 1, start, end, exclude, t)
NoiseFloor == IF thermalNoise.present THEN thermalNoise.val ELSE 0

\* C25: calculateRSSIMapping(start, end, exclude) is, at every instant, the
\* thermal noise (zero with no noise source) plus the receiving powers of
\* exactly the AirFrames that getChannelInfo(start, end) returns and that
\* are not the AirFrame exclude, compared by identity; with no exclusion
\* every returned AirFrame contributes exactly once.
C25_MappingContent ==
    IsRSSIEvent =>
        /\ \A t \in TimeDom :
              ev.map.val[t] = NoiseFloor
                                + ContributionsFrom(1, ev.start, ev.end, ev.id, t)
        /\ \A f \in 1..Len(signal) :
              InVector(f, getChannelInfo(Decider, ev.start, ev.end))
                  <=> Intersects(f, ev.start, ev.end)
        /\ ev.id = 0 =>
              \A t \in TimeDom :
                  ev.map.val[t] = NoiseFloor + PowerSum(
                      [f \in 1..Len(signal) |->
                          IF Intersects(f, ev.start, ev.end)
                          THEN signal[f] ELSE NoSignal], 1, t)

C25_Witness ==
    /\ IsRSSIEvent /\ ev.id = 1 /\ Len(signal) = 2
    /\ signal[1] = signal[2] /\ Intersects(1, ev.start, ev.end)
    /\ thermalNoise.present
    /\ ev.map.val[ev.start] = thermalNoise.val + signal[2].power
    /\ ev.start < ev.end

\* the last step built the SNR mapping of AirFrame ev.id
IsSnrEvent == ev.kind = "snr"
\* the receiving power of AirFrame f at instant t
PowerOf(f, t) ==
    IF signal[f].start <= t /\ t <= signal[f].start + signal[f].length
    THEN signal[f].power ELSE 0
\* noise and interference met by AirFrame f at instant t: the total power
\* over f's own window [start, start + length] with f itself left out
Interference(f, t) ==
    NoiseFloor + ContributionsFrom(1, signal[f].start,
                                   signal[f].start + signal[f].length, f, t)

AllDeletedOnceBut(h, p) ==
    \A q \in 1..h.allocated : h.deleted[q] = IF q = p THEN 0 ELSE 1
\* the AirFrames that calculateRSSIMapping(start, end, exclude) adds
Summed(start, end, exclude) ==
    Cardinality({f \in 1..Len(signal) : f # exclude /\ Intersects(f, start, end)})

\* C27: every Mapping allocated by the RSSI functions is deleted exactly
\* once and none is read or deleted after its deletion:
\* calculateRSSIMapping ends with exactly one live Mapping, its result,
\* every intermediate sum deleted once; calcChannelSenseRSSI ends with no
\* live Mapping; calculateSnrMapping has deleted the noise mapping exactly
\* once and hands back the SNR mapping as the only live one.
C27_MappingsReleasedOnce ==
    /\ ev.kind \in {"rssi", "sense", "snr"} =>
          /\ ~ev.heap.fault
          /\ AllDeletedOnceBut(ev.heap, ev.heap.ret)
          /\ ev.heap.live = IF ev.heap.ret = 0 THEN {} ELSE {ev.heap.ret}
    /\ IsRSSIEvent =>
          /\ ev.heap.ret = ev.heap.allocated
          /\ ev.heap.allocated = 1 + (IF thermalNoise.present THEN 1 ELSE 0)
                                    + Summed(ev.start, ev.end, ev.id)
    /\ ev.kind = "sense" =>
          /\ ev.heap.ret = 0
          /\ ev.heap.allocated = 1 + (IF thermalNoise.present THEN 1 ELSE 0)
                                    + Summed(ev.start, ev.end, 0)
    /\ IsSnrEvent =>
          /\ ev.heap.ret = ev.heap.allocated
          /\ ev.heap.deleted[ev.heap.allocated - 1] = 1
          /\ ev.heap.allocated = 2 + (IF thermalNoise.present THEN 1 ELSE 0)
                                    + Summed(ev.start, ev.end, ev.id)

C27_Witness ==
    /\ IsSnrEvent /\ thermalNoise.present /\ Len(signal) = 2
    /\ ev.heap.allocated = 4 /\ ev.heap.live = {4}
    /\ ev.heap.deleted = <<1, 1, 1, 0>> /\ ~ev.heap.fault

\* C28: whenever a handler has returned, the channel-idle flag is set
\* exactly when there is no current signal.
C28_IdleIffNoCurrentSignal ==
    isChannelIdle <=> currentSignal.first = 0

C28_Witness ==
    /\ IsWakeEvent /\ ev.preFirst = ev.id /\ ~ev.preIdle
    /\ isChannelIdle /\ currentSignal.first = 0
    /\ Len(signal) = 2 /\ ev.id = 2 /\ upCount = <<1, 1>>

\* C29: whenever a handler has returned, the mode of the outstanding
\* request is not fulfilled: with an UNTIL_IDLE request outstanding the
\* channel is busy, with an UNTIL_BUSY request outstanding it is idle.
C29_OutstandingNeverFulfilled ==
    currentChannelSenseRequest.first # 0 =>
        LET req == request[currentChannelSenseRequest.first] IN
        /\ req.mode \in SenseModes
        /\ req.mode = "UNTIL_IDLE" => ~isChannelIdle /\ currentSignal.first # 0
        /\ req.mode = "UNTIL_BUSY" => isChannelIdle /\ currentSignal.first = 0

C29_Witness ==
    /\ IsNewFrameEvent /\ ev.ret = notAgain /\ ev.preFirst = 0
    /\ currentChannelSenseRequest.first # 0
    /\ ev.preCsr = currentChannelSenseRequest.first
    /\ request[currentChannelSenseRequest.first].mode = "UNTIL_BUSY"
    /\ isChannelIdle /\ ev.ctrls = << >>

\* every AirFrame the decider asked to see again has been handed up
AllHandedUp == \A f \in accepted : upCount[f] = 1

\* C30: under a scheduler that calls processSignal again for the accepted
\* AirFrame at the time returned for it, and in a run not ended by a fatal
\* error, a busy channel is always followed by an idle channel with every
\* accepted AirFrame handed up: the receiver does not stay busy forever.
C30_BusyLeadsToIdle ==
    (~isChannelIdle) ~> (aborted \/ (isChannelIdle /\ AllHandedUp))

C30_Witness ==
    /\ IsWakeEvent /\ ~ev.preIdle /\ isChannelIdle /\ ~aborted
    /\ accepted = {2} /\ upCount = <<0, 1>>
    /\ Len(ev.ups) = 1 /\ ev.ups[1].frame = 2 /\ now = MaxTime

\* the last step handed to processSignal an AirFrame that is not the
\* current signal: at its first delivery or once more
IsArrivalEvent == ev.kind = "frame" /\ ev.sub \in {"new", "again"}

\* C31: whether an AirFrame that is not the current signal is taken depends
\* only on whether a reception is in progress and on its receiving power at
\* its signal start, not on the time nor on what happened to it before: it
\* is taken exactly when no reception is in progress and the power reaches
\* the sensitivity, and then signal start + signal length is returned, also
\* for an AirFrame refused earlier or handed up already.
C31_DecisionIgnoresHistory ==
    IsArrivalEvent =>
        /\ (ev.ret # notAgain)
              <=> (ev.preFirst = 0 /\ EvPowerAtStart >= sensitivity)
        /\ ev.ret # notAgain =>
              /\ ev.ret = EvSignalEnd
              /\ currentSignal = [first |-> ev.id, second |-> "EXPECT_END"]
              /\ ~isChannelIdle
        /\ ev.ret = notAgain =>
              /\ currentSignal.first = ev.preFirst
              /\ isChannelIdle = ev.preIdle

C31_Witness ==
    /\ IsArrivalEvent /\ ev.sub = "again" /\ ev.preFirst = 0
    /\ upCount[ev.id] = 1 /\ now = EvSignalEnd /\ ev.ret = EvSignalEnd
    /\ currentSignal.first = ev.id /\ ~isChannelIdle

\* C32: the calls made within one frame event are ordered. At the end of
\* a reception sendUp is called while the AirFrame is still the current
\* signal and before any sendControlMsg; the answer the flip to idle causes
\* is sent after sendUp and after the current signal was cleared. At an
\* acceptance the AirFrame is the current signal already when the answer the
\* flip to busy causes is sent, and nothing is handed up.
C32_OutputOrder ==
    /\ (IsWakeEvent /\ ev.preFirst = ev.id) =>
          /\ Len(ev.ups) = 1
          /\ ev.ups[1].cur = ev.id /\ ev.ups[1].ctrls = 0
          /\ \A i \in 1..Len(ev.ctrls) :
                ev.ctrls[i].ups = 1 /\ ev.ctrls[i].cur = 0 /\ ev.ctrls[i].idle
    /\ (IsNewFrameEvent /\ ev.ret # notAgain) =>
          /\ ev.ups = << >>
          /\ \A i \in 1..Len(ev.ctrls) :
                ev.ctrls[i].ups = 0 /\ ev.ctrls[i].cur = ev.id /\ ~ev.ctrls[i].idle

C32_Witness ==
    /\ IsWakeEvent /\ ev.preFirst = ev.id
    /\ Len(ev.ups) = 1 /\ Len(ev.ctrls) = 1
    /\ ev.ups[1].cur = ev.id /\ ev.ups[1].ctrls = 0
    /\ ev.ctrls[1].ups = 1 /\ ev.ctrls[1].cur = 0

\* C33: the state stored with the current signal is EXPECT_END from the
\* first acceptance on (before it, the value the decider was constructed
\* with) and is never EXPECT_HEADER, so processSignal never dispatches to
\* processSignalHeader; the end of a reception clears the reference only,
\* the stored state stays EXPECT_END, and with the reference cleared every
\* AirFrame is NEW.
C33_StoredStateOnlyExpectEnd ==
    /\ currentSignal.second = IF accepted = {} THEN "NEW" ELSE "EXPECT_END"
    /\ currentSignal.first # 0 => currentSignal.second = "EXPECT_END"
    /\ \A f \in 1..Len(signal) :
          /\ getSignalState(Decider, f) \in {"NEW", "EXPECT_END"}
          /\ getSignalState(Decider, f) = "EXPECT_END" <=> f = currentSignal.first
          /\ currentSignal.first = 0 => getSignalState(Decider, f) = "NEW"

C33_Witness ==
    /\ IsNewFrameEvent /\ ev.id = 2 /\ ev.preFirst = 0 /\ ev.ret = notAgain
    /\ upCount[1] = 1 /\ currentSignal = [first |-> 0, second |-> "EXPECT_END"]
    /\ getSignalState(Decider, 1) = "NEW"

\* the last step built an RSSI mapping from the vector ev.airFrames
IsOrderEvent == ev.kind = "order"

C35_HostMapsAgree ==
    /\ DOMAIN hostModules = DOMAIN equippedHostPositions
    /\ DOMAIN hostModules \cap DOMAIN unequippedHostPositions = {}
    /\ \A k \in 1..Len(ev.deleted) :
          /\ ev.deleted[k] \notin DOMAIN hostModules
          /\ ev.deleted[k] \notin DOMAIN equippedHostPositions

\* a subscription result deleted the module of one host while another host
\* is kept unequipped
C35_Witness ==
    /\ ev.kind = "result"
    /\ ev.deleted # << >>
    /\ DOMAIN unequippedHostPositions # {}
    /\ ~aborted

\* C36: a call of addModule with a node id that has a managed module ends
\* with the error "tried adding duplicate module" and leaves hostModules,
\* queuedVehicles, both host-position maps and the next node index as they
\* were; a call of deleteManagedModule with an id that has no managed module
\* ends with an error, nothing deleted and the three maps as they were.
C36_RejectedCallsChangeNothing ==
    [][/\ (ev'.kind = "add" /\ ev'.id \in DOMAIN hostModules) =>
            /\ ev'.error = "tried adding duplicate module"
            /\ aborted'
            /\ UNCHANGED <<hostModules, queuedVehicles, equippedHostPositions,
                           unequippedHostPositions, nextNodeVectorIndex>>
       /\ (ev'.kind = "delete" /\ ev'.id \notin DOMAIN hostModules) =>
            /\ ev'.error # NoError
            /\ aborted'
            /\ ev'.deleted = << >>
            /\ UNCHANGED <<hostModules, equippedHostPositions,
                           unequippedHostPositions>>]_vars

\* addModule has refused an id that has a module and is also the name of a
\* vehicle the manager has queued
C36_Witness ==
    /\ ev.kind = "add"
    /\ ev.error = "tried adding duplicate module"
    /\ ev.id \in DOMAIN hostModules
    /\ ev.id \in queuedVehicles

\* the last event was an arrival report of count vehicles that fulfils the
\* shutdown condition on the state before it
ShutdownReport ==
    LET count == activeVehicleCount - activeVehicleCount'
    IN /\ ev'.kind = "result"
       /\ ev'.var = "VAR_ARRIVED_VEHICLES_IDS"
       /\ ~aborted'
       /\ count > 0
       /\ count >= activeVehicleCount
       /\ par.autoShutdown

\* C37: autoShutdownTriggered, once set, stays set; it is set by exactly the
\* arrival reports with count > 0 and count >= activeVehicleCount while
\* autoShutdown is enabled; an executeOneTimestep that returns calls
\* scheduleAt once, for now + updateInterval, when the flag is not set at
\* its end, and not at all when it is set, so that no step message is
\* scheduled from then on; no handler schedules anything before that end.
C37_ShutdownIsFinal ==
    [][/\ autoShutdownTriggered => autoShutdownTriggered'
       /\ (~autoShutdownTriggered /\ ev'.kind \in {"connect", "step", "result"})
             => (autoShutdownTriggered' <=> ShutdownReport)
       /\ (ev'.kind \in {"step", "result"} /\ pending' = 0 /\ ~aborted') =>
             IF autoShutdownTriggered'
             THEN ev'.scheduled = << >> /\ executeOneTimestepTrigger' = -1
             ELSE /\ ev'.scheduled = <<now' + par.updateInterval>>
                  /\ executeOneTimestepTrigger' = now' + par.updateInterval
       /\ (pending' > 0 \/ aborted' \/ ev'.kind = "connect")
             => ev'.scheduled = << >>]_vars

\* the last vehicles have arrived: the step that read the report ended
\* without scheduling another one
C37_Witness ==
    /\ autoShutdownTriggered
    /\ ev.kind = "result"
    /\ ev.var = "VAR_ARRIVED_VEHICLES_IDS"
    /\ pending = 0
    /\ ev.scheduled = << >>
    /\ executeOneTimestepTrigger = -1
    /\ ~aborted

\* the draws of one step in the order insertVehicles has to try them: route
\* by route, and within a route in the order they were queued
RECURSIVE ExpectedOrder(_, _)
ExpectedOrder(rng, routeId) ==
    IF routeId >= Len(routeIds) THEN << >>
    ELSE SelectSeq(rng, LAMBDA d : d.routeId = routeId)
            \o ExpectedOrder(rng, routeId + 1)

\* C38: a step leaves vehicleInsertQueue empty; insertVehicles tries every
\* entry queued in the step once, route by route and first in first out
\* within a route; a refused entry is gone, an accepted one has its name
\* type_counter put into queuedVehicles and raises vehicleNameCounter by
\* one, so that the names accepted in the step, and all names accepted in
\* the run, are pairwise distinct.
C38_InsertQueueDrained ==
    [][ev'.kind = "step" =>
         LET order == ExpectedOrder(ev'.rng, 0)
             att == ev'.attempts
             won == {k \in 1..Len(att) : att[k].suc}
         IN /\ vehicleInsertQueue' = << >>
            /\ Len(att) = Len(ev'.rng)
            /\ \A k \in 1..Len(att) :
                  /\ att[k].type = vehicleTypeIds[order[k].vehTypeId + 1]
                  /\ att[k].route = routeIds[order[k].routeId + 1]
                  /\ att[k].suc = ev'.suc[k]
                  /\ att[k].veh = VehicleName(att[k].type,
                        vehicleNameCounter + Cardinality({j \in won : j < k}))
            /\ queuedVehicles' = queuedVehicles \cup {att[k].veh : k \in won}
            /\ vehicleNameCounter' = vehicleNameCounter + Cardinality(won)
            /\ Len(addedVehicles') = Len(addedVehicles) + Cardinality(won)
            /\ \A j, k \in won : j # k => att[j].veh # att[k].veh
            /\ \A j, k \in 1..Len(addedVehicles') :
                  j # k => addedVehicles'[j] # addedVehicles'[k]]_vars

\* a step queued two vehicles of different types on one route: the server
\* refused the first and accepted the second
C38_Witness ==
    /\ ev.kind = "step"
    /\ Len(ev.attempts) = 2
    /\ ev.attempts[1].route = ev.attempts[2].route
    /\ ev.attempts[1].type # ev.attempts[2].type
    /\ ~ev.attempts[1].suc
    /\ ev.attempts[2].suc
    /\ ev.attempts[2].veh \in queuedVehicles
    /\ vehicleInsertQueue = << >>

====
